---- MODULE Spec2Model ----
(***************************************************************************)
(* Model of the ArchiCAD IFC plugin gateway:                               *)
(*   - WebSocketSession / ArchicadWebSocketServer  (WebSocketServer.cpp)   *)
(*   - HandleWebSocketCommand and the add-on commands (IFC_To_Archicad.cpp)*)
(*   - ConversionHandler (ConversionHandler.cpp)                           *)
(*                                                                         *)
(* Two threads exist.  The network thread runs m_ioc.run() and executes    *)
(* every completion handler (OnRead, OnWrite) one at a time; a handler     *)
(* that blocks (the HTTP round trip of start_conversion) blocks them all.  *)
(* The host main thread executes the add-on commands' Execute (policy      *)
(* ScheduleForExecutionOnMainThread).  While a command is inside a host    *)
(* project operation (Close, Open, Save, NewProject) the host may run the  *)
(* next scheduled command from its event loop: this is the only way the    *)
(* admission check of ConvertPlnToIfc can ever see the flag set.           *)
(***************************************************************************)
EXTENDS Integers, Sequences, FiniteSets, TLC

\* ------------------------------------------------------------------ bounds
MaxFrames == 2
MaxDepth == 2
MaxMsgs == 3
MaxBcasts == 2
MaxFields == 2
MaxPathFields == 3
MaxStr == 3
MaxAcceptErrors == 2
MaxCalls == 3

\* --------------------------------------------------------------- constants
Sessions == {"s1", "s2", "s3"}
JobIds == {"J1", "J2"}
NoProgress == -1
InPln == "in.pln"
InIfc == "in.ifc"
OutPath == "out.file"

\* Message texts.  The text of a failing step ("Error: Cannot access .pln
\* file", "Error opening .pln file. Code: N", "Exception saving IFC: ...")
\* is kept as its class, StepFailed; the other texts are the source's.
AlreadyInProgress == "Error: Another conversion is already in progress"
ConversionFailed == "Conversion failed"
StepFailed == "Error: step failed"
DispatchFailed == "HTTP request failed"

VARIABLES
    \* ArchicadWebSocketServer / WebSocketSession
    m_sessions,      \* tracked sessions, in push_back order
    m_open,          \* [session -> BOOLEAN]  std::atomic<bool> m_open
    m_writeQueue,    \* [session -> Seq(Msg)]
    inFlight,        \* [session -> BOOLEAN]  an async_write is outstanding
    wire,            \* [session -> Seq(Msg)] frames handed to the transport
    enq,             \* [session -> Seq(Msg)] messages Send pushed on the queue
    conn,            \* [session -> "none" | "handshake" | "up" |
                     \*   "closed" (by Close) | "down" (failed, ended)
                     \*   | "gone" (destroyed)]
    m_reads,         \* [session -> Nat] async_read operations outstanding
    m_sessionMutex,  \* the thread that holds m_sessionMutex, or ""
    bcast,           \* a BroadcastMessage in progress: where it is
    stopper,         \* ArchicadWebSocketServer::Stop in progress: where
    payload,         \* the frame HandleCommand is given, as its fields
    parsed,          \* what HandleCommand extracted from it
    inbox,           \* [session -> Seq(Frame)] client frames not yet read
    net,             \* network thread: what the current handler is doing
    \* host
    hostQueue,       \* add-on commands scheduled for the main thread
    stack,           \* main thread call stack of Execute frames
    responded,       \* requests whose HTTP response has been written
    \* ConversionHandler statics
    s_conversionInProgress,
    s_currentJobId,
    s_shouldCancel,
    \* history
    events,          \* every message given to BroadcastMessage, in order
    reqs,            \* what happened to each client frame
    epoch,           \* number of admissions so far
    closeCalls,      \* [session -> Nat] calls of Close that have returned
    writeErr,        \* [session -> BOOLEAN] an OnWrite of it got an error
    \* the listener
    m_running,       \* std::atomic<bool> m_running
    m_accepts,       \* async_accept operations outstanding
    acceptLog,       \* the accept completions so far: "ok" or "error"
    m_acceptor,      \* tcp::acceptor: "closed", "open" or "listening"
    m_ioc,           \* net::io_context: "ready", or "stopped" by stop()
    callLog,         \* the calls of Start and Stop that have returned
    \* the pure functions, each with its input and its result
    resolved,        \* start_conversion's resolution of the path fields
    escaped          \* EscapeJson: the string and what it was turned into

vars == <<m_sessions, m_open, m_writeQueue, inFlight, wire, enq, conn,
          inbox, net,
          hostQueue, stack, responded,
          s_conversionInProgress, s_currentJobId, s_shouldCancel,
          events, reqs, epoch,
          m_reads, m_sessionMutex, bcast, stopper, closeCalls, writeErr,
          m_running, m_accepts, acceptLog, m_acceptor, m_ioc, callLog,
          payload, parsed, resolved,
          escaped>>

\* the listener, and the inputs and results of the pure functions
lifeVars == <<m_acceptor, m_ioc, callLog>>
srvVars == <<m_running, m_accepts, acceptLog, lifeVars>>
pureVars == <<payload, parsed, resolved, escaped>>

\* what the command handlers and the host never change
sideVars == <<m_sessionMutex, bcast, stopper, closeCalls, writeErr, srvVars,
              pureVars>>

sessVars == <<m_sessions, m_open, m_writeQueue, inFlight, wire, enq, conn>>
jobVars == <<s_conversionInProgress, s_currentJobId, s_shouldCancel>>

\* ------------------------------------------------------------- messages
\* SendProgress: {"type":"progress","jobId","progress","status","message"}
ProgressMsg(req, jobId, progress, status, message) ==
    [req |-> req, type |-> "progress", jobId |-> jobId, progress |-> progress,
     status |-> status, text |-> message, outputPath |-> ""]

\* SendError: {"type":"error","jobId","error","status":"error"}
ErrorMsg(req, jobId, error) ==
    [req |-> req, type |-> "error", jobId |-> jobId, progress |-> NoProgress,
     status |-> "error", text |-> error, outputPath |-> ""]

\* SendCompletion: {"type":"completed","jobId","status","message","result"}
CompletionMsg(req, jobId, outputPath) ==
    [req |-> req, type |-> "completed", jobId |-> jobId,
     progress |-> NoProgress, status |-> "completed",
     text |-> "Conversion completed successfully", outputPath |-> outputPath]

\* the progress lambda of Execute: status from the percent
ProgressStatus(progress) ==
    IF progress = 0 THEN "error"
    ELSE IF progress = 100 THEN "completed" ELSE "processing"

OnProgress(req, jobId, progress, message) ==
    ProgressMsg(req, jobId, progress, ProgressStatus(progress), message)

\* ------------------------------------------------- session write path
\* The session state a broadcast works on, as one value so that several
\* broadcasts of one handler can be chained.
WS == [sessions |-> m_sessions, queue |-> m_writeQueue,
       inflight |-> inFlight, wire |-> wire, enq |-> enq]

\* Send that starts a write although one is already outstanding
Send_AlwaysWrite(ws, s, msg) ==
    IF ~m_open[s] THEN ws
    ELSE LET q == Append(ws.queue[s], msg)
         IN [ws EXCEPT !.queue[s] = q, !.enq[s] = Append(@, msg),
                       !.inflight[s] = TRUE,
                       !.wire[s] = Append(@, msg)]

\* Send without the test of m_open
Send_IgnoreOpen(ws, s, msg) ==
    LET writing == ws.queue[s] # <<>>
        q == Append(ws.queue[s], msg)
    IN IF writing
       THEN [ws EXCEPT !.queue[s] = q, !.enq[s] = Append(@, msg)]
       ELSE [ws EXCEPT !.queue[s] = q, !.enq[s] = Append(@, msg),
                       !.inflight[s] = TRUE,
                       !.wire[s] = Append(@, Head(q))]

\* WebSocketSession::Send (with DoWrite)
Send(ws, s, msg) ==
    IF ~m_open[s] THEN ws
    ELSE LET writing == ws.queue[s] # <<>>
             q == Append(ws.queue[s], msg)
         IN IF writing
            THEN [ws EXCEPT !.queue[s] = q, !.enq[s] = Append(@, msg)]
            ELSE [ws EXCEPT !.queue[s] = q, !.enq[s] = Append(@, msg),
                            !.inflight[s] = TRUE,
                            !.wire[s] = Append(@, Head(q))]

RECURSIVE SendEach(_, _, _)
SendEach(ws, ss, msg) ==
    IF ss = <<>> THEN ws
    ELSE SendEach(IF m_open[Head(ss)] THEN Send(ws, Head(ss), msg) ELSE ws,
                  Tail(ss), msg)

\* BroadcastMessage without the erase of the closed sessions
BroadcastMessage_NoPrune(ws, msg) ==
    SendEach(ws, ws.sessions, msg)

\* ArchicadWebSocketServer::BroadcastMessage
BroadcastMessage(ws, msg) ==
    LET kept == SelectSeq(ws.sessions, LAMBDA s : m_open[s])
    IN SendEach([ws EXCEPT !.sessions = kept], kept, msg)

RECURSIVE BroadcastAll(_, _)
BroadcastAll(ws, msgs) ==
    IF msgs = <<>> THEN ws
    ELSE BroadcastAll(BroadcastMessage(ws, Head(msgs)), Tail(msgs))

\* a handler broadcasts msgs, in order
Emit(msgs) ==
    LET ws == BroadcastAll(WS, msgs)
    IN /\ m_sessions' = ws.sessions
       /\ m_writeQueue' = ws.queue
       /\ inFlight' = ws.inflight
       /\ wire' = ws.wire
       /\ enq' = ws.enq
       /\ events' = events \o msgs
       /\ UNCHANGED <<m_open, conn>>

\* ------------------------------------------------ HandleCommand's parse
\* A frame is taken as the sequence of its fields, each a key and a value;
\* a value is a string or something that is not a string (a number).  The
\* text HandleCommand searches is the sequence of the tokens of the
\* fields: "key" : "value" or "key" : 5.  Strings hold no quote and no
\* colon.
Str(v) == [t |-> "str", v |-> v]
Colon == [t |-> "colon", v |-> ""]
Num == [t |-> "num", v |-> ""]

RECURSIVE Text(_)
Text(fields) ==
    IF fields = <<>> THEN <<>>
    ELSE <<Str(Head(fields).key), Colon,
           IF Head(fields).str THEN Str(Head(fields).value) ELSE Num>>
         \o Text(Tail(fields))

\* what find is given: a token, or any quoted string (find of "\"")
AnyString == [t |-> "str", v |-> "*"]
Matches(k, pat) == k.t = pat.t /\ (pat = AnyString \/ k.v = pat.v)

\* jsonPayload.find(pat, from): the first position at or after from
\* whose token matches pat, 0 for npos
RECURSIVE Find(_, _, _)
Find(text, pat, from) ==
    IF from = 0 \/ from > Len(text) THEN 0
    ELSE IF Matches(text[from], pat) THEN from
    ELSE Find(text, pat, from + 1)

\* a field extraction that takes the value of the last field of the frame
ExtractField_Last(text, key) ==
    IF text = <<>> THEN "" ELSE text[Len(text)].v

\* the extraction HandleCommand does for "command" and for "jobId":
\* find "\"key\"", then ":", then the next quote and the quote after it
ExtractField(text, key) ==
    LET keyPos == Find(text, Str(key), 1)
        colonPos == Find(text, Colon, keyPos)
        quoteStart == Find(text, AnyString, colonPos)
    IN IF keyPos = 0 \/ quoteStart = 0 THEN "" ELSE text[quoteStart].v

\* ArchicadWebSocketServer::HandleCommand: the fields are extracted and
\* the command callback is called if the command is not empty
HandleCommand ==
    /\ ~parsed.done
    /\ LET command == ExtractField(Text(payload), "command")
           jobId == ExtractField(Text(payload), "jobId")
       IN parsed' = [done |-> TRUE, command |-> command, jobId |-> jobId,
                     called |-> command # ""]
    /\ UNCHANGED <<sessVars, inbox, net, hostQueue, stack, responded,
                   jobVars, events, reqs, epoch, m_reads, m_sessionMutex,
                   bcast, stopper, closeCalls, writeErr, srvVars, payload,
                   resolved, escaped>>

\* ------------------------------- start_conversion's path resolution
\* payload.find("\"canonical\""), and if that is npos
\* payload.find("\"alternate\"")
FindKey(text, canonical, alternate) ==
    LET pos == Find(text, Str(canonical), 1)
    IN IF pos = 0 THEN Find(text, Str(alternate), 1) ELSE pos

\* the extraction at a key position: the ":" after it, the next quote
\* and the quote after that; found tells whether a value was assigned
PathAt(text, pos) ==
    LET colonPos == Find(text, Colon, pos)
        quoteStart == Find(text, AnyString, colonPos)
    IN IF pos = 0 \/ quoteStart = 0
       THEN [found |-> FALSE, v |-> ""]
       ELSE [found |-> TRUE, v |-> text[quoteStart].v]

\* a resolution in which the alternate spelling is looked up first
ResolvePaths_AlternateFirst(text) ==
    LET pln == PathAt(text, FindKey(text, "pln_path", "plnPath"))
        ifc == PathAt(text, FindKey(text, "ifc_path", "ifcPath"))
        out == PathAt(text, FindKey(text, "output_path", "outputPath"))
    IN [done |-> TRUE,
        inputPath |-> IF pln.v # "" THEN pln.v ELSE ifc.v,
        outputPath |-> out.v,
        isPlnToIfc |-> IF pln.v # "" THEN TRUE
                       ELSE IF ifc.found THEN FALSE ELSE pln.found]

\* HandleWebSocketCommand, start_conversion: inputPath, outputPath and
\* isPlnToIfc from the payload.  The IFC fields are consulted when the
\* PLN extraction left inputPath empty, and an IFC value that is found
\* sets isPlnToIfc = false.
ResolvePaths(text) ==
    LET pln == PathAt(text, FindKey(text, "plnPath", "pln_path"))
        ifc == PathAt(text, FindKey(text, "ifcPath", "ifc_path"))
        out == PathAt(text, FindKey(text, "outputPath", "output_path"))
    IN [done |-> TRUE,
        inputPath |-> IF pln.v # "" THEN pln.v ELSE ifc.v,
        outputPath |-> out.v,
        isPlnToIfc |-> IF pln.v # "" THEN TRUE
                       ELSE IF ifc.found THEN FALSE ELSE pln.found]

\* the handler resolves the fields of the payload it was given
ResolveFields ==
    /\ ~resolved.done
    /\ resolved' = ResolvePaths(Text(payload))
    /\ UNCHANGED <<sessVars, inbox, net, hostQueue, stack, responded,
                   jobVars, events, reqs, epoch, m_reads, m_sessionMutex,
                   bcast, stopper, closeCalls, writeErr, srvVars, payload,
                   parsed, escaped>>

\* ------------------------------------------------------------ EscapeJson
\* A string is the sequence of its bytes, 0..255; the escaped form is a
\* sequence of bytes too.  The bytes that matter:
Quote == 34
Backslash == 92
LetterB == 98
LetterF == 102
LetterN == 110
LetterR == 114
LetterT == 116
LetterU == 117

\* the character of a hexadecimal digit as std::hex writes it
\* ('0'..'9', 'a'..'f')
HexChar(d) == IF d < 10 THEN 48 + d ELSE 87 + d

\* operator<<(int) under std::hex for n >= 0, without padding
RECURSIVE HexDigits(_)
HexDigits(n) ==
    IF n < 16 THEN <<HexChar(n)>>
    ELSE Append(HexDigits(n \div 16), HexChar(n % 16))

\* setw(4) with setfill('0'): a minimum width, nothing is cut
RECURSIVE PadLeft(_, _)
PadLeft(digits, width) ==
    IF Len(digits) >= width THEN digits
    ELSE PadLeft(<<48>> \o digits, width)

\* the value of a byte as a char: where char is signed the bytes from
\* 0x80 are negative
CharValue(b, signed) == IF signed /\ b >= 128 THEN b - 256 ELSE b

\* oss << std::hex << std::setw(4) << std::setfill('0')
\*     << static_cast<int>(c).  A negative int is written as the 32-bit
\* unsigned value 2^32 + v = 0xffffff00 + (256 + v): eight digits.
HexOfInt(v) ==
    IF v >= 0 THEN PadLeft(HexDigits(v), 4)
    ELSE <<102, 102, 102, 102, 102, 102>> \o HexDigits(256 + v)

\* the switch of EscapeJson for one character
EscapeChar(b, signed) ==
    CASE b = Quote -> <<Backslash, Quote>>
      [] b = Backslash -> <<Backslash, Backslash>>
      [] b = 8 -> <<Backslash, LetterB>>
      [] b = 12 -> <<Backslash, LetterF>>
      [] b = 10 -> <<Backslash, LetterN>>
      [] b = 13 -> <<Backslash, LetterR>>
      [] b = 9 -> <<Backslash, LetterT>>
      [] OTHER -> IF CharValue(b, signed) < 32
                  THEN <<Backslash, LetterU>>
                         \o HexOfInt(CharValue(b, signed))
                  ELSE <<b>>

\* ArchicadWebSocketServer::EscapeJson: for (char c : str)
RECURSIVE EscapeJson(_, _)
EscapeJson(str, signed) ==
    IF str = <<>> THEN <<>>
    ELSE EscapeChar(Head(str), signed) \o EscapeJson(Tail(str), signed)

\* SendProgress / SendError / SendCompletion escape a string value
EscapeValue ==
    /\ ~escaped.done
    /\ escaped' = [escaped EXCEPT
                      !.done = TRUE,
                      !.out = EscapeJson(escaped.str, escaped.signed)]
    /\ UNCHANGED <<sessVars, inbox, net, hostQueue, stack, responded,
                   jobVars, events, reqs, epoch, m_reads, m_sessionMutex,
                   bcast, stopper, closeCalls, writeErr, srvVars, payload,
                   parsed, resolved>>

\* ------------------------------------------------------------- clients
\* What a client may put in a frame.  input is the source-path field the
\* frame carries ("none": no path field at all).
StartFrames == [cmd : {"start_conversion"}, jobId : JobIds,
                input : {"pln", "ifc", "none"}]
OtherFrames == [cmd : {"cancel_job", "get_status", "load_ifc"},
                jobId : JobIds, input : {"none"}]
\* frames HandleCommand finds no command in (""), and frames whose
\* command HandleWebSocketCommand has no branch for
DroppedFrames == [cmd : {"", "ping"}, jobId : {"J1"}, input : {"none"}]
\* frames HandleCommand finds no job id in: the callback is given ""
NoIdFrames == {[cmd |-> "start_conversion", jobId |-> "", input |-> "pln"],
               [cmd |-> "cancel_job", jobId |-> "", input |-> "none"],
               [cmd |-> "get_status", jobId |-> "", input |-> "none"]}
FrameChoices == StartFrames \cup OtherFrames \cup DroppedFrames
\* the frames that are handled on the network thread alone
FaultChoices == [cmd : {"cancel_job", "get_status", "ping", ""},
                 jobId : {"J1"}, input : {"none"}]
\* the frames of clients that leave the job id out of some frames
NoIdChoices ==
    NoIdFrames
      \cup {[cmd |-> "start_conversion", jobId |-> "J1", input |-> "pln"]}

RunningEpoch == IF s_conversionInProgress THEN epoch ELSE 0

NewReq(f) == [cmd |-> f.cmd, jobId |-> f.jobId,
              arr |-> RunningEpoch,   \* job Running when the frame arrived
              handledIn |-> -1,       \* job Running when it was handled
              ret |-> "none",         \* what the callee returned
              adm |-> 0,              \* admitted as the adm-th job
              name |-> "",            \* the add-on command that ran for it
              done |-> "none",        \* outcome of an admitted conversion
              cleanup |-> 0]          \* cleanup steps it ran: 0, 1 or 2

\* a client writes one frame, one of frames, to its connection
ClientSendFrom(s, frames) ==
    /\ Len(reqs) < MaxFrames
    /\ conn[s] = "up"
    /\ \E f \in frames :
          /\ inbox' = [inbox EXCEPT ![s] =
                          Append(@, [req |-> Len(reqs) + 1, cmd |-> f.cmd,
                                     jobId |-> f.jobId, input |-> f.input])]
          /\ reqs' = Append(reqs, NewReq(f))
    /\ UNCHANGED <<sessVars, net, hostQueue, stack, responded, jobVars,
                   events, epoch>>
    /\ UNCHANGED <<m_reads, sideVars>>

ClientSend(s) == ClientSendFrom(s, FrameChoices)
ClientSend_NoId(s) == ClientSendFrom(s, NoIdChoices)
ClientSend_Fault(s) == ClientSendFrom(s, FaultChoices)

\* ------------------------------------------------------ network thread
\* snap: the number of admissions there had been when the handler read
\* s_conversionInProgress as set
Idle == [pc |-> "idle", sess |-> "", req |-> 0, jobId |-> "", snap |-> 0]

\* an OnRead that leaves its read counted as outstanding
ReadCompleted_Keep(rd, s) == rd

\* the completion handler OnRead is invoked: that read is over
ReadCompleted(rd, s) == [rd EXCEPT ![s] = @ - 1]

\* WebSocketSession::DoRead: async_read is issued
DoRead(rd, s) == [rd EXCEPT ![s] = @ + 1]

\* OnRead can run for session s: the thread is free, the read is armed
\* and a frame is there
CanRead(s) ==
    net.pc = "idle" /\ conn[s] = "up" /\ m_reads[s] > 0 /\ inbox[s] # <<>>

Handled(r) == [reqs EXCEPT ![r].handledIn = RunningEpoch]

\* ConversionHandler::IsConversionInProgress, taken at one instant
IsConversionInProgress(jobId) ==
    s_conversionInProgress /\ s_currentJobId = jobId

\* CancelConversion that does not compare the job id
CancelCheck_AnyJob(jobId) ==
    TRUE

\* the test at the top of ConversionHandler::CancelConversion, given that
\* its first operand, !s_conversionInProgress, was read as false
CancelCheck(jobId) ==
    ~(s_currentJobId # jobId)

\* IsConversionInProgress, given that the first operand of its &&,
\* s_conversionInProgress, was read as true
IsConversionInProgress_ReadId(jobId) ==
    s_currentJobId = jobId

CommandName(input) ==
    IF input = "pln" THEN "ConvertPlnToIfc" ELSE "ConvertIfcToPln"

InputPath(input) == IF input = "pln" THEN InPln ELSE InIfc

\* OnRead -> HandleMessage -> HandleCommand -> HandleWebSocketCommand,
\* command "start_conversion"
OnRead_StartConversion(s) ==
    /\ CanRead(s)
    /\ LET f == Head(inbox[s]) IN
       /\ f.cmd = "start_conversion"
       /\ inbox' = [inbox EXCEPT ![s] = Tail(@)]
       /\ reqs' = Handled(f.req)
       /\ IF f.input = "none"
          THEN /\ Emit(<<ErrorMsg(f.req, f.jobId,
                    "Missing input path (pln_path or ifc_path) and output_path")>>)
               /\ m_reads' = DoRead(ReadCompleted(m_reads, s), s)
               /\ UNCHANGED <<net, hostQueue>>
          ELSE \E o \in {"portError", "connectError", "delivered"} :
                 CASE o = "portError" ->
                        /\ Emit(<<ErrorMsg(f.req, f.jobId,
                                           DispatchFailed)>>)
                        /\ m_reads' = DoRead(ReadCompleted(m_reads, s), s)
                        /\ UNCHANGED <<net, hostQueue>>
                   [] o = "connectError" ->
                        /\ Emit(<<ErrorMsg(f.req, f.jobId,
                                           DispatchFailed)>>)
                        /\ m_reads' = DoRead(ReadCompleted(m_reads, s), s)
                        /\ UNCHANGED <<net, hostQueue>>
                   [] o = "delivered" ->
                        /\ hostQueue' = Append(hostQueue,
                              [name |-> CommandName(f.input), req |-> f.req,
                               jobId |-> f.jobId,
                               inputPath |-> InputPath(f.input),
                               outputPath |-> OutPath])
                        /\ net' = [pc |-> "roundtrip", sess |-> s,
                                   req |-> f.req, jobId |-> f.jobId,
                                   snap |-> 0]
                        /\ m_reads' = ReadCompleted(m_reads, s)
                        /\ UNCHANGED <<sessVars, events>>
    /\ UNCHANGED <<stack, responded, jobVars, epoch>>
    /\ UNCHANGED sideVars

\* command "load_ifc"
OnRead_LoadIfc(s) ==
    /\ CanRead(s)
    /\ LET f == Head(inbox[s]) IN
       /\ f.cmd = "load_ifc"
       /\ inbox' = [inbox EXCEPT ![s] = Tail(@)]
       /\ reqs' = Handled(f.req)
       /\ \E o \in {"portError", "connectError", "delivered"} :
            CASE o = "portError" ->
                   /\ Emit(<<ErrorMsg(f.req, f.jobId,
                                      DispatchFailed)>>)
                   /\ m_reads' = DoRead(ReadCompleted(m_reads, s), s)
                   /\ UNCHANGED <<net, hostQueue>>
              [] o = "connectError" ->
                   /\ Emit(<<ErrorMsg(f.req, f.jobId,
                                      DispatchFailed)>>)
                   /\ m_reads' = DoRead(ReadCompleted(m_reads, s), s)
                   /\ UNCHANGED <<net, hostQueue>>
              [] o = "delivered" ->
                   /\ hostQueue' = Append(hostQueue,
                         [name |-> "LoadIfc", req |-> f.req,
                          jobId |-> f.jobId, inputPath |-> InIfc,
                          outputPath |-> ""])
                   /\ net' = [pc |-> "roundtrip", sess |-> s,
                              req |-> f.req, jobId |-> f.jobId, snap |-> 0]
                   /\ m_reads' = ReadCompleted(m_reads, s)
                   /\ UNCHANGED <<sessVars, events>>
    /\ UNCHANGED <<stack, responded, jobVars, epoch>>
    /\ UNCHANGED sideVars

\* the blocking read of the HTTP response returns: socket closed (eof)
RoundTripReturn ==
    /\ net.pc = "roundtrip"
    /\ net.req \in responded
    /\ net' = Idle
    /\ UNCHANGED <<sessVars, inbox, hostQueue, stack, responded, jobVars,
                   events, reqs, epoch>>
    /\ m_reads' = DoRead(m_reads, net.sess)
    /\ UNCHANGED sideVars

\* the blocking read fails (catch: SendError DispatchFailed)
RoundTripFail ==
    /\ net.pc = "roundtrip"
    /\ Emit(<<ErrorMsg(net.req, net.jobId, DispatchFailed)>>)
    /\ net' = Idle
    /\ UNCHANGED <<inbox, hostQueue, stack, responded, jobVars, reqs, epoch>>
    /\ m_reads' = DoRead(m_reads, net.sess)
    /\ UNCHANGED sideVars

\* command "cancel_job": CancelConversion up to the first operand of its
\* test, !s_conversionInProgress; the statics are not guarded, so the
\* host may write them before the second operand is read
OnRead_CancelJob(s) ==
    /\ CanRead(s)
    /\ LET f == Head(inbox[s]) IN
       /\ f.cmd = "cancel_job"
       /\ inbox' = [inbox EXCEPT ![s] = Tail(@)]
       /\ IF s_conversionInProgress
          THEN /\ net' = [pc |-> "cancelId", sess |-> s, req |-> f.req,
                          jobId |-> f.jobId, snap |-> epoch]
               /\ reqs' = Handled(f.req)
               /\ m_reads' = ReadCompleted(m_reads, s)
          ELSE /\ net' = net
               /\ reqs' = [Handled(f.req) EXCEPT ![f.req].ret = "false"]
               /\ m_reads' = DoRead(ReadCompleted(m_reads, s), s)
    /\ UNCHANGED <<sessVars, hostQueue, stack, responded, jobVars, events,
                   epoch>>
    /\ UNCHANGED sideVars

\* CancelConversion: the second operand of the test,
\* s_currentJobId != jobId
CancelConversion_ReadId ==
    /\ net.pc = "cancelId"
    /\ IF CancelCheck(net.jobId)
       THEN /\ net' = [net EXCEPT !.pc = "cancelWrite"]
            /\ UNCHANGED <<reqs, m_reads>>
       ELSE /\ net' = Idle
            /\ reqs' = [reqs EXCEPT ![net.req].ret = "false"]
            /\ m_reads' = DoRead(m_reads, net.sess)
    /\ UNCHANGED <<sessVars, inbox, hostQueue, stack, responded, jobVars,
                   events, epoch>>
    /\ UNCHANGED sideVars

\* CancelConversion after its test: s_shouldCancel = true; return true;
\* then the handler's SendProgress(jobId, 0, "cancelled", ...)
CancelWrite ==
    /\ net.pc = "cancelWrite"
    /\ s_shouldCancel' = TRUE
    /\ reqs' = [reqs EXCEPT ![net.req].ret = "true"]
    /\ Emit(<<ProgressMsg(net.req, net.jobId, 0, "cancelled",
                          "Conversion cancelled")>>)
    /\ net' = Idle
    /\ UNCHANGED <<inbox, hostQueue, stack, responded,
                   s_conversionInProgress, s_currentJobId, epoch>>
    /\ m_reads' = DoRead(m_reads, net.sess)
    /\ UNCHANGED sideVars

\* command "get_status": IsConversionInProgress up to the first operand
\* of its &&; when the flag is clear the second is not evaluated and the
\* status is sent at once
OnRead_GetStatus(s) ==
    /\ CanRead(s)
    /\ LET f == Head(inbox[s]) IN
       /\ f.cmd = "get_status"
       /\ inbox' = [inbox EXCEPT ![s] = Tail(@)]
       /\ reqs' = Handled(f.req)
       /\ IF s_conversionInProgress
          THEN /\ net' = [pc |-> "statusId", sess |-> s, req |-> f.req,
                          jobId |-> f.jobId, snap |-> epoch]
               /\ m_reads' = ReadCompleted(m_reads, s)
               /\ UNCHANGED <<sessVars, events>>
          ELSE /\ Emit(<<ProgressMsg(f.req, f.jobId, 0, "idle",
                                     "Plugin ready")>>)
               /\ m_reads' = DoRead(ReadCompleted(m_reads, s), s)
               /\ net' = net
    /\ UNCHANGED <<hostQueue, stack, responded, jobVars, epoch>>
    /\ UNCHANGED sideVars

\* IsConversionInProgress: the second operand, s_currentJobId == jobId;
\* then the handler's SendProgress of the status
GetStatus_ReadId ==
    /\ net.pc = "statusId"
    /\ Emit(<<ProgressMsg(net.req, net.jobId, 0,
                 IF IsConversionInProgress_ReadId(net.jobId)
                 THEN "processing" ELSE "idle", "Plugin ready")>>)
    /\ net' = Idle
    /\ m_reads' = DoRead(m_reads, net.sess)
    /\ UNCHANGED <<inbox, hostQueue, stack, responded, jobVars, reqs, epoch>>
    /\ UNCHANGED sideVars

\* the commands HandleWebSocketCommand has a branch for
KnownCommands == {"start_conversion", "cancel_job", "get_status", "load_ifc"}

\* a frame without a branch that is answered like a get_status
OnRead_Dropped_Answered(s) ==
    /\ CanRead(s)
    /\ LET f == Head(inbox[s]) IN
       /\ f.cmd \notin KnownCommands
       /\ inbox' = [inbox EXCEPT ![s] = Tail(@)]
       /\ reqs' = Handled(f.req)
       /\ Emit(<<ProgressMsg(f.req, f.jobId, 0, "idle", "Plugin ready")>>)
    /\ m_reads' = DoRead(ReadCompleted(m_reads, s), s)
    /\ UNCHANGED <<net, hostQueue, stack, responded, jobVars, epoch,
                   sideVars>>

\* OnRead for a frame with no command (HandleCommand calls no callback)
\* or with a command HandleWebSocketCommand has no branch for (it falls
\* through the if / else-if chain): nothing but the next DoRead
OnRead_Dropped(s) ==
    /\ CanRead(s)
    /\ LET f == Head(inbox[s]) IN
       /\ f.cmd \notin KnownCommands
       /\ inbox' = [inbox EXCEPT ![s] = Tail(@)]
       /\ reqs' = Handled(f.req)
    /\ m_reads' = DoRead(ReadCompleted(m_reads, s), s)
    /\ UNCHANGED <<sessVars, net, hostQueue, stack, responded, jobVars,
                   events, epoch, sideVars>>

\* a command callback whose exception is caught nowhere: it leaves
\* OnRead before DoRead and ends m_ioc.run(); RunServer then clears
\* m_running
OnRead_Throws_Escapes(s) ==
    /\ CanRead(s)
    /\ LET f == Head(inbox[s]) IN
       /\ f.cmd # ""
       /\ inbox' = [inbox EXCEPT ![s] = Tail(@)]
       /\ reqs' = [Handled(f.req) EXCEPT ![f.req].ret = "threw"]
    /\ m_reads' = ReadCompleted(m_reads, s)
    /\ net' = [Idle EXCEPT !.pc = "stopped"]
    /\ m_running' = FALSE
    /\ UNCHANGED <<sessVars, hostQueue, stack, responded, jobVars, events,
                   epoch, m_sessionMutex, bcast, stopper, closeCalls,
                   writeErr, m_accepts, acceptLog, lifeVars, pureVars>>

\* OnRead for a frame whose command callback throws (a std::exception:
\* bad_alloc, system_error) before it has done anything: HandleMessage
\* catches and logs it, OnRead goes on to DoRead
OnRead_Throws(s) ==
    /\ CanRead(s)
    /\ LET f == Head(inbox[s]) IN
       /\ f.cmd # ""
       /\ inbox' = [inbox EXCEPT ![s] = Tail(@)]
       /\ reqs' = [Handled(f.req) EXCEPT ![f.req].ret = "threw"]
    /\ m_reads' = DoRead(ReadCompleted(m_reads, s), s)
    /\ net' = net
    /\ m_running' = m_running
    /\ UNCHANGED <<sessVars, hostQueue, stack, responded, jobVars, events,
                   epoch, m_sessionMutex, bcast, stopper, closeCalls,
                   writeErr, m_accepts, acceptLog, lifeVars, pureVars>>

\* OnWrite that erases the written message and does not write the next
OnWrite_NoNext(s) ==
    /\ net.pc = "idle"
    /\ inFlight[s]
    /\ m_writeQueue' = [m_writeQueue EXCEPT ![s] = Tail(@)]
    /\ inFlight' = [inFlight EXCEPT ![s] = FALSE]
    /\ UNCHANGED <<m_sessions, m_open, wire, enq, conn, inbox, net, hostQueue,
                   stack, responded, jobVars, events, reqs, epoch>>
    /\ UNCHANGED <<m_reads, sideVars>>

\* WebSocketSession::OnWrite, no error
OnWrite(s) ==
    /\ net.pc = "idle"
    /\ inFlight[s]
    /\ LET q == Tail(m_writeQueue[s]) IN
       /\ m_writeQueue' = [m_writeQueue EXCEPT ![s] = q]
       /\ IF q # <<>>
          THEN /\ wire' = [wire EXCEPT ![s] = Append(@, Head(q))]
               /\ UNCHANGED inFlight
          ELSE /\ inFlight' = [inFlight EXCEPT ![s] = FALSE]
               /\ UNCHANGED wire
    /\ UNCHANGED <<m_sessions, m_open, enq, conn, inbox, net, hostQueue,
                   stack, responded, jobVars, events, reqs, epoch>>
    /\ UNCHANGED <<m_reads, sideVars>>

\* an OnWrite that returns on an error and leaves the session open
OnWrite_Error_StaysOpen(s) ==
    /\ net.pc = "idle"
    /\ inFlight[s]
    /\ inFlight' = [inFlight EXCEPT ![s] = FALSE]
    /\ writeErr' = [writeErr EXCEPT ![s] = TRUE]
    /\ UNCHANGED <<m_sessions, m_open, m_writeQueue, wire, enq, conn, inbox,
                   net, hostQueue, stack, responded, jobVars, events, reqs,
                   epoch>>
    /\ UNCHANGED <<m_reads, m_sessionMutex, bcast, stopper, closeCalls,
                   srvVars, pureVars>>

\* WebSocketSession::OnWrite, ec set: m_open = false; return
OnWrite_Error(s) ==
    /\ net.pc = "idle"
    /\ inFlight[s]
    /\ inFlight' = [inFlight EXCEPT ![s] = FALSE]
    /\ m_open' = [m_open EXCEPT ![s] = FALSE]
    /\ writeErr' = [writeErr EXCEPT ![s] = TRUE]
    /\ UNCHANGED <<m_sessions, m_writeQueue, wire, enq, conn, inbox, net,
                   hostQueue, stack, responded, jobVars, events, reqs, epoch>>
    /\ UNCHANGED <<m_reads, m_sessionMutex, bcast, stopper, closeCalls,
                   srvVars, pureVars>>

\* WebSocketSession::OnRead, ec set (closed by the client or read error):
\* m_open = false; return, no further read
OnRead_Error(s) ==
    /\ net.pc = "idle"
    /\ conn[s] \in {"up", "closed"}
    /\ m_reads[s] > 0
    /\ m_open' = [m_open EXCEPT ![s] = FALSE]
    /\ conn' = [conn EXCEPT ![s] = "down"]
    /\ UNCHANGED <<m_sessions, m_writeQueue, inFlight, wire, enq, inbox, net,
                   hostQueue, stack, responded, jobVars, events, reqs, epoch>>
    /\ m_reads' = ReadCompleted(m_reads, s)
    /\ UNCHANGED sideVars


\* the end of OnAccept: if (m_running) DoAccept()
Rearm == IF m_running THEN 1 ELSE 0

\* ArchicadWebSocketServer::OnAccept, no error: the session is created,
\* stored and run (WebSocketSession::Run starts the handshake); then the
\* next accept is armed if the server is running
Server_OnAccept(s) ==
    /\ net.pc = "idle"
    /\ m_accepts > 0
    /\ conn[s] = "none"
    /\ m_sessionMutex = ""
    /\ m_sessions' = Append(m_sessions, s)
    /\ conn' = [conn EXCEPT ![s] = "handshake"]
    /\ m_accepts' = (m_accepts - 1) + Rearm
    /\ acceptLog' = Append(acceptLog, "ok")
    /\ UNCHANGED <<m_open, m_writeQueue, inFlight, wire, enq, inbox, net,
                   hostQueue, stack, responded, jobVars, events, reqs, epoch>>
    /\ UNCHANGED <<m_reads, m_sessionMutex, bcast, stopper, closeCalls,
                   writeErr, m_running, lifeVars, pureVars>>

\* the accept completions that had an error
AcceptErrors == Len(SelectSeq(acceptLog, LAMBDA o : o = "error"))

\* an OnAccept that arms no accept after an error
Server_OnAccept_Error_NoRearm ==
    /\ net.pc = "idle"
    /\ m_accepts > 0
    /\ AcceptErrors < MaxAcceptErrors
    /\ m_accepts' = m_accepts - 1
    /\ acceptLog' = Append(acceptLog, "error")
    /\ UNCHANGED <<sessVars, inbox, net, hostQueue, stack, responded,
                   jobVars, events, reqs, epoch>>
    /\ UNCHANGED <<m_reads, m_sessionMutex, bcast, stopper, closeCalls,
                   writeErr, m_running, lifeVars, pureVars>>

\* ArchicadWebSocketServer::OnAccept, ec set: the error is logged; then
\* the next accept is armed if the server is running
Server_OnAccept_Error ==
    /\ net.pc = "idle"
    /\ m_accepts > 0
    /\ AcceptErrors < MaxAcceptErrors
    /\ m_accepts' = (m_accepts - 1) + Rearm
    /\ acceptLog' = Append(acceptLog, "error")
    /\ UNCHANGED <<sessVars, inbox, net, hostQueue, stack, responded,
                   jobVars, events, reqs, epoch>>
    /\ UNCHANGED <<m_reads, m_sessionMutex, bcast, stopper, closeCalls,
                   writeErr, m_running, lifeVars, pureVars>>

\* WebSocketSession::OnAccept: the handshake completed or failed
Session_OnAccept(s) ==
    /\ net.pc = "idle"
    /\ conn[s] = "handshake"
    /\ \E ok \in BOOLEAN :
         IF ok
         THEN /\ m_open' = [m_open EXCEPT ![s] = TRUE]
              /\ conn' = [conn EXCEPT ![s] = "up"]
              /\ m_reads' = DoRead(m_reads, s)
         ELSE /\ conn' = [conn EXCEPT ![s] = "down"]
              /\ UNCHANGED <<m_open, m_reads>>
    /\ UNCHANGED <<m_sessions, m_writeQueue, inFlight, wire, enq, inbox, net,
                   hostQueue, stack, responded, jobVars, events, reqs, epoch>>
    /\ UNCHANGED sideVars

\* Some thread broadcasts the next message (SendProgress, SendError and
\* SendCompletion all end in BroadcastMessage); the payload is opaque to
\* the sessions and is numbered here.
Broadcast ==
    /\ Len(events) < MaxMsgs
    /\ Emit(<<Len(events) + 1>>)
    /\ UNCHANGED <<inbox, net, hostQueue, stack, responded, jobVars, reqs,
                   epoch>>
    /\ UNCHANGED <<m_reads, sideVars>>

\* HandleCommand has not run
NoParse == [done |-> FALSE, command |-> "", jobId |-> "", called |-> FALSE]

\* the path fields have not been resolved, no string has been escaped
NoResolve == [done |-> FALSE, inputPath |-> "", outputPath |-> "",
              isPlnToIfc |-> FALSE]
NoEscape == [done |-> FALSE, str |-> <<>>, signed |-> TRUE, out |-> <<>>]

\* no broadcast and no Stop is in progress, the mutex is free
NoBcast == [pc |-> "idle", thread |-> "", rest |-> <<>>, msg |-> 0,
            dropped |-> 0]
NoStop == [pc |-> "idle", rest |-> <<>>]

InitSide ==
    /\ m_sessionMutex = ""
    /\ bcast = NoBcast
    /\ stopper = NoStop
    /\ closeCalls = [s \in Sessions |-> 0]
    /\ writeErr = [s \in Sessions |-> FALSE]
    /\ m_running = TRUE
    /\ m_accepts = 1
    /\ acceptLog = <<>>
    /\ m_acceptor = "listening"
    /\ m_ioc = "ready"
    /\ callLog = <<>>
    /\ payload = <<>>
    /\ parsed = NoParse
    /\ resolved = NoResolve
    /\ escaped = NoEscape

\* ------------------------------------ BroadcastMessage and Stop by steps
\* BroadcastMessage runs on the thread that reports: the network thread
\* (a command handler) or the host main thread (Execute).  Stop runs on the
\* host main thread.
Threads == {"net", "host"}

\* where the loop of BroadcastMessage goes after a session
BcastNext(rest) == IF rest = <<>> THEN "unlock" ELSE "check"

\* BroadcastMessage: lock_guard on m_sessionMutex, erase of the sessions
\* that are not open
Bcast_Lock(t) ==
    /\ Len(events) < MaxBcasts
    /\ bcast.pc = "idle"
    /\ m_sessionMutex = ""
    /\ IF t = "net"
       THEN net.pc = "idle" /\ net' = [Idle EXCEPT !.pc = "broadcast"]
       ELSE stopper.pc \in {"idle", "done"} /\ net' = net
    /\ LET kept == SelectSeq(m_sessions, LAMBDA s : m_open[s]) IN
       /\ m_sessions' = kept
       /\ bcast' = [pc |-> BcastNext(kept), thread |-> t, rest |-> kept,
                    msg |-> Len(events) + 1, dropped |-> 0]
    /\ m_sessionMutex' = t
    /\ events' = Append(events, Len(events) + 1)
    /\ UNCHANGED <<m_open, m_writeQueue, inFlight, wire, enq, conn, inbox,
                   hostQueue, stack, responded, jobVars, reqs, epoch,
                   m_reads, stopper, closeCalls, writeErr, srvVars, pureVars>>

\* the loop of BroadcastMessage: if (session->IsOpen())
Bcast_Check ==
    /\ bcast.pc = "check"
    /\ bcast' = IF m_open[Head(bcast.rest)]
                THEN [bcast EXCEPT !.pc = "send"]
                ELSE [bcast EXCEPT !.rest = Tail(@),
                                   !.pc = BcastNext(Tail(bcast.rest))]
    /\ UNCHANGED <<sessVars, inbox, net, hostQueue, stack, responded,
                   jobVars, events, reqs, epoch, m_reads, m_sessionMutex,
                   stopper, closeCalls, writeErr, srvVars, pureVars>>

\* the loop of BroadcastMessage: session->Send(message)
Bcast_Send ==
    /\ bcast.pc = "send"
    /\ LET s == Head(bcast.rest)
           ws == Send(WS, s, bcast.msg)
       IN /\ m_writeQueue' = ws.queue
          /\ inFlight' = ws.inflight
          /\ wire' = ws.wire
          /\ enq' = ws.enq
          /\ bcast' = [bcast EXCEPT
                         !.rest = Tail(@),
                         !.pc = BcastNext(Tail(bcast.rest)),
                         !.dropped = IF ws = WS THEN @ + 1 ELSE @]
    /\ UNCHANGED <<m_sessions, m_open, conn, inbox, net, hostQueue, stack,
                   responded, jobVars, events, reqs, epoch, m_reads,
                   m_sessionMutex, stopper, closeCalls, writeErr, srvVars, pureVars>>

\* BroadcastMessage returns: the lock_guard is released
Bcast_Unlock ==
    /\ bcast.pc = "unlock"
    /\ m_sessionMutex' = ""
    /\ net' = IF bcast.thread = "net" THEN Idle ELSE net
    /\ bcast' = NoBcast
    /\ UNCHANGED <<sessVars, inbox, hostQueue, stack, responded, jobVars,
                   events, reqs, epoch, m_reads, stopper, closeCalls, writeErr, srvVars, pureVars>>

\* WebSocketSession::Close on session s: what it does to the open flag
\* and to the transport
CloseOpen(s) == [m_open EXCEPT ![s] = FALSE]
CloseConn(s) == IF m_open[s] THEN [conn EXCEPT ![s] = "closed"] ELSE conn

StopNext(rest) == IF rest = <<>> THEN "clear" ELSE "close"

\* Stop: if (!m_running) return; m_running = false
Stop_Begin ==
    /\ stopper.pc = "idle"
    /\ ~(bcast.pc # "idle" /\ bcast.thread = "host")
    /\ m_running
    /\ m_running' = FALSE
    /\ stopper' = [stopper EXCEPT !.pc = "lock"]
    /\ UNCHANGED <<sessVars, inbox, net, hostQueue, stack, responded,
                   jobVars, events, reqs, epoch, m_reads, m_sessionMutex,
                   bcast, closeCalls>>
    /\ UNCHANGED <<writeErr, m_accepts, acceptLog, lifeVars, pureVars>>

\* Stop: lock_guard on m_sessionMutex
Stop_Lock ==
    /\ stopper.pc = "lock"
    /\ m_sessionMutex = ""
    /\ m_sessionMutex' = "host"
    /\ stopper' = [pc |-> StopNext(m_sessions), rest |-> m_sessions]
    /\ UNCHANGED <<sessVars, inbox, net, hostQueue, stack, responded,
                   jobVars, events, reqs, epoch, m_reads, bcast, closeCalls>>
    /\ UNCHANGED <<writeErr, srvVars, pureVars>>

\* Stop: session->Close() for the next tracked session
Stop_Close ==
    /\ stopper.pc = "close"
    /\ LET s == Head(stopper.rest) IN
       /\ m_open' = CloseOpen(s)
       /\ conn' = CloseConn(s)
       /\ closeCalls' = [closeCalls EXCEPT ![s] = @ + 1]
    /\ stopper' = [pc |-> StopNext(Tail(stopper.rest)),
                   rest |-> Tail(stopper.rest)]
    /\ UNCHANGED <<m_sessions, m_writeQueue, inFlight, wire, enq, inbox, net,
                   hostQueue, stack, responded, jobVars, events, reqs, epoch,
                   m_reads, m_sessionMutex, bcast>>
    /\ UNCHANGED <<writeErr, srvVars, pureVars>>

\* Stop: m_sessions.clear(); the lock_guard is released
Stop_Clear ==
    /\ stopper.pc = "clear"
    /\ m_sessions' = <<>>
    /\ m_sessionMutex' = ""
    /\ stopper' = [stopper EXCEPT !.pc = "join"]
    /\ UNCHANGED <<m_open, m_writeQueue, inFlight, wire, enq, conn, inbox,
                   net, hostQueue, stack, responded, jobVars, events, reqs,
                   epoch, m_reads, bcast, closeCalls>>
    /\ UNCHANGED <<writeErr, srvVars, pureVars>>

\* Stop: m_acceptor.close (the outstanding accept is cancelled);
\* m_ioc.stop; m_serverThread.join returns when the handler the network
\* thread is running has returned
Stop_Join ==
    /\ stopper.pc = "join"
    /\ net.pc \in {"idle", "stopped"}
    /\ net' = [Idle EXCEPT !.pc = "stopped"]
    /\ stopper' = [stopper EXCEPT !.pc = "done"]
    /\ m_accepts' = 0
    /\ m_acceptor' = "closed"
    /\ m_ioc' = "stopped"
    /\ UNCHANGED <<sessVars, inbox, hostQueue, stack, responded, jobVars,
                   events, reqs, epoch, m_reads, m_sessionMutex, bcast,
                   closeCalls>>
    /\ UNCHANGED <<writeErr, m_running, acceptLog, callLog, pureVars>>

\* ~WebSocketSession: the last shared_ptr is gone (the session is not
\* tracked and no handler of it is pending); the destructor calls Close
Session_Destroy(s) ==
    /\ conn[s] \in {"closed", "down"}
    /\ \A i \in DOMAIN m_sessions : m_sessions[i] # s
    /\ m_reads[s] = 0
    /\ ~inFlight[s]
    /\ m_open' = CloseOpen(s)
    /\ conn' = [CloseConn(s) EXCEPT ![s] = "gone"]
    /\ closeCalls' = [closeCalls EXCEPT ![s] = @ + 1]
    /\ UNCHANGED <<m_sessions, m_writeQueue, inFlight, wire, enq, inbox, net,
                   hostQueue, stack, responded, jobVars, events, reqs, epoch,
                   m_reads, m_sessionMutex, bcast, stopper>>
    /\ UNCHANGED <<writeErr, srvVars, pureVars>>

\* ---------------------------------------------------- host main thread
\* positions at which the running command is inside a host project
\* operation (ACAPI_ProjectOperation_Close / Open / Save / NewProject)
HostSteps == {"close", "open", "save", "cleanupClose", "blankTemplate",
              "loadOpen"}

Top == Head(stack)

\* The host runs the next scheduled add-on command on the main thread:
\* when the thread is free, or from the event loop of a project operation.
HostRun ==
    /\ hostQueue # <<>>
    /\ IF stack = <<>> THEN TRUE
       ELSE Top.pc \in HostSteps /\ Len(stack) < MaxDepth
    /\ LET c == Head(hostQueue) IN
       stack' = <<[name |-> c.name, req |-> c.req, jobId |-> c.jobId,
                   outputPath |-> c.outputPath, pc |-> "entry",
                   success |-> FALSE, cleanup |-> 0]>> \o stack
    /\ hostQueue' = Tail(hostQueue)
    /\ UNCHANGED <<sessVars, inbox, net, responded, jobVars, events, reqs,
                   epoch>>
    /\ UNCHANGED <<m_reads, sideVars>>

IsConversion(name) == name \in {"ConvertPlnToIfc", "ConvertIfcToPln"}

\* the top frame moves to position pc
Goto(pc, success) ==
    stack' = <<[Top EXCEPT !.pc = pc, !.success = success]>> \o Tail(stack)

\* Execute returns: the frame is popped and the HTTP response is written
Return ==
    /\ stack' = Tail(stack)
    /\ responded' = responded \cup {Top.req}

\* a conversion without the admission test
Busy_Never == FALSE

\* an admission test that only refuses the job that is already running
Busy_SameJob == s_conversionInProgress /\ s_currentJobId = Top.jobId

\* the admission test of ConvertPlnToIfc / ConvertIfcToPln
Busy == s_conversionInProgress

\* s_conversionInProgress = true; s_currentJobId = jobId;
\* s_shouldCancel = false
Admit(jobId) ==
    /\ s_conversionInProgress' = TRUE
    /\ s_currentJobId' = jobId
    /\ s_shouldCancel' = FALSE

\* a reset that clears the job id but leaves the flag set
ResetState_KeepFlag ==
    /\ s_currentJobId' = ""
    /\ UNCHANGED <<s_conversionInProgress, s_shouldCancel>>

\* "Reset state": s_conversionInProgress = false; s_currentJobId = ""
ResetState ==
    /\ s_conversionInProgress' = FALSE
    /\ s_currentJobId' = ""
    /\ UNCHANGED s_shouldCancel

\* both directions reporting the percent of the IFC direction
OpenPercent_Same(name) == 40

\* the percent reported after the first Close of each direction
OpenPercent(name) == IF name = "ConvertPlnToIfc" THEN 30 ELSE 40
OpenText(name) ==
    IF name = "ConvertPlnToIfc" THEN "Opening .pln project"
    ELSE "Loading IFC file"

\* Execute of a conversion command up to the first host operation:
\* the admission test, and for an admitted job the file check
Convert_Entry ==
    /\ stack # <<>>
    /\ Top.pc = "entry"
    /\ IsConversion(Top.name)
    /\ IF Busy
       THEN \* rejected: onProgress(0, ...), return false; Execute then
            \* sends the error and returns
            /\ Emit(<<OnProgress(Top.req, Top.jobId, 0, AlreadyInProgress),
                      ErrorMsg(Top.req, Top.jobId, ConversionFailed)>>)
            /\ Return
            /\ reqs' = [reqs EXCEPT ![Top.req].ret = "rejected"]
            /\ UNCHANGED <<jobVars, epoch>>
       ELSE /\ Admit(Top.jobId)
            /\ epoch' = epoch + 1
            /\ reqs' = [reqs EXCEPT ![Top.req].ret = "admitted",
                                     ![Top.req].adm = epoch + 1,
                                     ![Top.req].name = Top.name]
            /\ UNCHANGED responded
            /\ \E o \in {"ok", "noAccess", "exception"} :
                 CASE o = "ok" ->
                        /\ Emit(<<OnProgress(Top.req, Top.jobId, 20,
                                             "Closing current project")>>)
                        /\ Goto("close", FALSE)
                   [] o \in {"noAccess", "exception"} ->
                        /\ Emit(<<OnProgress(Top.req, Top.jobId, 0,
                                             StepFailed)>>)
                        /\ Goto("cleanupClose", FALSE)
    /\ UNCHANGED <<inbox, net, hostQueue>>
    /\ UNCHANGED <<m_reads, sideVars>>

\* a conversion that looks at the cancel flag after the Close and gives
\* up when it is set
Convert_Close_Checkpoint ==
    /\ stack # <<>>
    /\ Top.pc = "close"
    /\ IF s_shouldCancel
       THEN /\ Emit(<<OnProgress(Top.req, Top.jobId, 0, StepFailed)>>)
            /\ Goto("cleanupClose", FALSE)
       ELSE /\ Emit(<<OnProgress(Top.req, Top.jobId, OpenPercent(Top.name),
                                 OpenText(Top.name))>>)
            /\ Goto("open", FALSE)
    /\ UNCHANGED <<inbox, net, hostQueue, responded, jobVars, reqs, epoch>>
    /\ UNCHANGED <<m_reads, sideVars>>

\* ACAPI_ProjectOperation_Close returns (its result is only logged)
Convert_Close ==
    /\ stack # <<>>
    /\ Top.pc = "close"
    /\ Emit(<<OnProgress(Top.req, Top.jobId, OpenPercent(Top.name),
                         OpenText(Top.name))>>)
    /\ Goto("open", FALSE)
    /\ UNCHANGED <<inbox, net, hostQueue, responded, jobVars, reqs, epoch>>
    /\ UNCHANGED <<m_reads, sideVars>>

\* ACAPI_ProjectOperation_Open returns or throws
Convert_Open ==
    /\ stack # <<>>
    /\ Top.pc = "open"
    /\ \E o \in {"ok", "noTranslator", "error", "exception"} :
         CASE o = "ok" /\ Top.name = "ConvertPlnToIfc" ->
                /\ Emit(<<OnProgress(Top.req, Top.jobId, 50,
                                     "Preparing IFC export"),
                          OnProgress(Top.req, Top.jobId, 70,
                                     "Exporting to IFC")>>)
                /\ Goto("save", FALSE)
           [] o = "ok" /\ Top.name = "ConvertIfcToPln" ->
                /\ Emit(<<OnProgress(Top.req, Top.jobId, 70,
                                     "Saving as PLN file")>>)
                /\ Goto("save", FALSE)
           [] o = "noTranslator" /\ Top.name = "ConvertPlnToIfc" ->
                /\ Emit(<<OnProgress(Top.req, Top.jobId, 50,
                                     "Preparing IFC export"),
                          OnProgress(Top.req, Top.jobId, 0, StepFailed)>>)
                /\ Goto("cleanupClose", FALSE)
           [] o = "noTranslator" /\ Top.name = "ConvertIfcToPln" -> FALSE
           [] o \in {"error", "exception"} ->
                /\ Emit(<<OnProgress(Top.req, Top.jobId, 0, StepFailed)>>)
                /\ Goto("cleanupClose", FALSE)
    /\ UNCHANGED <<inbox, net, hostQueue, responded, jobVars, reqs, epoch>>
    /\ UNCHANGED <<m_reads, sideVars>>

\* ACAPI_ProjectOperation_Save returns or throws
Convert_Save ==
    /\ stack # <<>>
    /\ Top.pc = "save"
    /\ \E o \in {"ok", "error", "exception"} :
         CASE o = "ok" ->
                /\ Emit(<<OnProgress(Top.req, Top.jobId, 100,
                                  "Conversion completed successfully")>>)
                /\ Goto("cleanupClose", TRUE)
           [] o \in {"error", "exception"} ->
                /\ Emit(<<OnProgress(Top.req, Top.jobId, 0, StepFailed)>>)
                /\ Goto("cleanupClose", FALSE)
    /\ UNCHANGED <<inbox, net, hostQueue, responded, jobVars, reqs, epoch>>
    /\ UNCHANGED <<m_reads, sideVars>>

\* error: / ifc_error: the Close of the cleanup returns or throws
Convert_CleanupClose ==
    /\ stack # <<>>
    /\ Top.pc = "cleanupClose"
    /\ stack' = <<[Top EXCEPT !.pc = "blankTemplate", !.cleanup = 1]>>
                 \o Tail(stack)
    /\ UNCHANGED <<sessVars, inbox, net, hostQueue, responded, jobVars,
                   events, reqs, epoch>>
    /\ UNCHANGED <<m_reads, sideVars>>

\* OpenBlankTemplate returns; "Reset state"; return success; Execute
\* sends the completion or the error and returns
Convert_Finish ==
    /\ stack # <<>>
    /\ Top.pc = "blankTemplate"
    /\ ResetState
    /\ IF Top.success
       THEN Emit(<<CompletionMsg(Top.req, Top.jobId, Top.outputPath)>>)
       ELSE Emit(<<ErrorMsg(Top.req, Top.jobId, ConversionFailed)>>)
    /\ Return
    /\ reqs' = [reqs EXCEPT
                  ![Top.req].done = IF Top.success THEN "success" ELSE "failed",
                  ![Top.req].cleanup = Top.cleanup + 1]
    /\ UNCHANGED <<inbox, net, hostQueue, epoch>>
    /\ UNCHANGED <<m_reads, sideVars>>

\* LoadIfcCommand::Execute up to ACAPI_ProjectOperation_Open
LoadIfc_Entry ==
    /\ stack # <<>>
    /\ Top.pc = "entry"
    /\ Top.name = "LoadIfc"
    /\ \E o \in {"ok", "noAccess"} :
         CASE o = "ok" ->
                /\ Goto("loadOpen", FALSE)
                /\ UNCHANGED <<sessVars, events, responded>>
           [] o = "noAccess" ->
                /\ Emit(<<ErrorMsg(Top.req, Top.jobId,
                                   StepFailed)>>)
                /\ Return
    /\ UNCHANGED <<inbox, net, hostQueue, jobVars, reqs, epoch>>
    /\ UNCHANGED <<m_reads, sideVars>>

\* LoadIfcCommand::Execute from the return of Open
LoadIfc_Open ==
    /\ stack # <<>>
    /\ Top.pc = "loadOpen"
    /\ \E o \in {"ok", "error"} :
         CASE o = "ok" ->
                Emit(<<ProgressMsg(Top.req, Top.jobId, 100, "completed",
                                   "IFC file loaded successfully")>>)
           [] o = "error" ->
                Emit(<<ErrorMsg(Top.req, Top.jobId,
                                StepFailed)>>)
    /\ Return
    /\ UNCHANGED <<inbox, net, hostQueue, jobVars, reqs, epoch>>
    /\ UNCHANGED <<m_reads, sideVars>>

\* a Cleanup that leaves the cancel flag as it is
Cleanup_KeepCancel ==
    /\ stack = <<>>
    /\ s_conversionInProgress' = FALSE
    /\ s_currentJobId' = ""
    /\ UNCHANGED s_shouldCancel
    /\ UNCHANGED <<sessVars, inbox, net, hostQueue, stack, responded,
                   events, reqs, epoch>>
    /\ UNCHANGED <<m_reads, sideVars>>

\* ConversionHandler::Cleanup, called by FreeData on the main thread
Cleanup ==
    /\ stack = <<>>
    /\ s_conversionInProgress' = FALSE
    /\ s_currentJobId' = ""
    /\ s_shouldCancel' = FALSE
    /\ UNCHANGED <<sessVars, inbox, net, hostQueue, stack, responded,
                   events, reqs, epoch>>
    /\ UNCHANGED <<m_reads, sideVars>>

\* -------------------------------------------------------- specification
\* The server has been started and both clients have completed their
\* handshake; no job has run yet.
Init ==
    /\ m_sessions = <<"s1", "s2">>
    /\ m_open = [s \in Sessions |-> s \in {"s1", "s2"}]
    /\ m_writeQueue = [s \in Sessions |-> <<>>]
    /\ inFlight = [s \in Sessions |-> FALSE]
    /\ wire = [s \in Sessions |-> <<>>]
    /\ enq = [s \in Sessions |-> <<>>]
    /\ conn = [s \in Sessions |-> IF s \in {"s1", "s2"} THEN "up" ELSE "none"]
    /\ inbox = [s \in Sessions |-> <<>>]
    /\ net = Idle
    /\ hostQueue = <<>>
    /\ stack = <<>>
    /\ responded = {}
    /\ s_conversionInProgress = FALSE
    /\ s_currentJobId = ""
    /\ s_shouldCancel = FALSE
    /\ events = <<>>
    /\ reqs = <<>>
    /\ epoch = 0
    /\ m_reads = [s \in Sessions |-> IF conn[s] = "up" THEN 1 ELSE 0]
    /\ InitSide

Next ==
    \/ \E s \in Sessions : ClientSend(s)
    \/ \E s \in Sessions : OnRead_StartConversion(s)
    \/ \E s \in Sessions : OnRead_LoadIfc(s)
    \/ \E s \in Sessions : OnRead_CancelJob(s)
    \/ \E s \in Sessions : OnRead_GetStatus(s)
    \/ \E s \in Sessions : OnRead_Dropped(s)
    \/ RoundTripReturn
    \/ RoundTripFail
    \/ CancelConversion_ReadId
    \/ CancelWrite
    \/ GetStatus_ReadId
    \/ HostRun
    \/ Convert_Entry
    \/ Convert_Close
    \/ Convert_Open
    \/ Convert_Save
    \/ Convert_CleanupClose
    \/ Convert_Finish
    \/ LoadIfc_Entry
    \/ LoadIfc_Open
    \/ Cleanup

Spec == Init /\ [][Next]_vars

\* The job coordination for clients that leave the job id out: the
\* command callback is then given the empty string.
NextNoId ==
    \/ \E s \in Sessions : ClientSend_NoId(s)
    \/ \E s \in Sessions : OnRead_StartConversion(s)
    \/ \E s \in Sessions : OnRead_CancelJob(s)
    \/ \E s \in Sessions : OnRead_GetStatus(s)
    \/ RoundTripReturn
    \/ RoundTripFail
    \/ CancelConversion_ReadId
    \/ CancelWrite
    \/ GetStatus_ReadId
    \/ HostRun
    \/ Convert_Entry
    \/ Convert_Close
    \/ Convert_Open
    \/ Convert_Save
    \/ Convert_CleanupClose
    \/ Convert_Finish
    \/ Cleanup

SpecNoId == Init /\ [][NextNoId]_vars

\* Cleanup as a function of the job state: the three statics have any of
\* the values they take, no command is executing, and one start request
\* (job J2) has been dispatched and waits for the main thread.
JobStates ==
    {st \in [running : BOOLEAN, id : JobIds \cup {""}, cancel : BOOLEAN] :
        ~st.running => st.id = ""}

InitCleanup ==
    /\ m_sessions = <<"s1", "s2">>
    /\ m_open = [s \in Sessions |-> s \in {"s1", "s2"}]
    /\ m_writeQueue = [s \in Sessions |-> <<>>]
    /\ inFlight = [s \in Sessions |-> FALSE]
    /\ wire = [s \in Sessions |-> <<>>]
    /\ enq = [s \in Sessions |-> <<>>]
    /\ conn = [s \in Sessions |-> IF s \in {"s1", "s2"} THEN "up" ELSE "none"]
    /\ inbox = [s \in Sessions |-> <<>>]
    /\ net = [pc |-> "roundtrip", sess |-> "s1", req |-> 1, jobId |-> "J2",
              snap |-> 0]
    /\ stack = <<>>
    /\ responded = {}
    /\ events = <<>>
    /\ m_reads = [s \in Sessions |-> IF s = "s2" THEN 1 ELSE 0]
    /\ InitSide
    /\ \E st \in JobStates, input \in {"pln", "ifc"} :
          /\ s_conversionInProgress = st.running
          /\ s_currentJobId = st.id
          /\ s_shouldCancel = st.cancel
          /\ epoch = (IF st.running THEN 1 ELSE 0)
          /\ reqs = <<[NewReq([cmd |-> "start_conversion", jobId |-> "J2"])
                         EXCEPT !.handledIn = epoch, !.arr = epoch]>>
          /\ hostQueue = <<[name |-> CommandName(input), req |-> 1,
                            jobId |-> "J2", inputPath |-> InputPath(input),
                            outputPath |-> OutPath]>>

NextCleanup ==
    \/ Cleanup
    \/ HostRun
    \/ Convert_Entry
    \/ Convert_Close
    \/ Convert_Open
    \/ Convert_Save
    \/ Convert_CleanupClose
    \/ Convert_Finish
    \/ RoundTripReturn
    \/ RoundTripFail

SpecCleanup == InitCleanup /\ [][NextCleanup]_vars

\* The command callback may throw: the frames the network thread handles
\* by itself, each handled normally or by a callback that throws.
NextFault ==
    \/ \E s \in Sessions : ClientSend_Fault(s)
    \/ \E s \in Sessions : OnRead_Throws(s)
    \/ \E s \in Sessions : OnRead_CancelJob(s)
    \/ \E s \in Sessions : OnRead_GetStatus(s)
    \/ \E s \in Sessions : OnRead_Dropped(s)
    \/ \E s \in Sessions : OnRead_Error(s)

SpecFault == Init /\ [][NextFault]_vars

\* The session layer on its own: the server has been started, no client
\* has connected yet, and the payloads are opaque.
InitSession ==
    /\ m_sessions = <<>>
    /\ m_open = [s \in Sessions |-> FALSE]
    /\ m_writeQueue = [s \in Sessions |-> <<>>]
    /\ inFlight = [s \in Sessions |-> FALSE]
    /\ wire = [s \in Sessions |-> <<>>]
    /\ enq = [s \in Sessions |-> <<>>]
    /\ conn = [s \in Sessions |-> "none"]
    /\ inbox = [s \in Sessions |-> <<>>]
    /\ net = Idle
    /\ hostQueue = <<>>
    /\ stack = <<>>
    /\ responded = {}
    /\ s_conversionInProgress = FALSE
    /\ s_currentJobId = ""
    /\ s_shouldCancel = FALSE
    /\ events = <<>>
    /\ reqs = <<>>
    /\ epoch = 0
    /\ m_reads = [s \in Sessions |-> IF conn[s] = "up" THEN 1 ELSE 0]
    /\ InitSide

NextSession ==
    \/ \E s \in Sessions : Server_OnAccept(s)
    \/ \E s \in Sessions : Session_OnAccept(s)
    \/ \E s \in Sessions : OnWrite(s)
    \/ \E s \in Sessions : OnWrite_Error(s)
    \/ \E s \in Sessions : OnRead_Error(s)
    \/ Broadcast

SpecSession == InitSession /\ [][NextSession]_vars

\* The session layer with BroadcastMessage and Stop taken step by step,
\* so that what the other thread does in between is seen.
NextLock ==
    \/ \E s \in Sessions : Server_OnAccept(s)
    \/ \E s \in Sessions : Session_OnAccept(s)
    \/ \E s \in Sessions : OnWrite_Error(s)
    \/ \E s \in Sessions : OnRead_Error(s)
    \/ \E t \in Threads : Bcast_Lock(t)
    \/ Bcast_Check
    \/ Bcast_Send
    \/ Bcast_Unlock
    \/ Stop_Begin
    \/ Stop_Lock
    \/ Stop_Close
    \/ Stop_Clear
    \/ Stop_Join
    \/ \E s \in Sessions : Session_Destroy(s)

SpecLock == InitSession /\ [][NextLock]_vars

\* The listener and Stop: accepts that succeed or fail, before and after
\* Stop has cleared m_running
NextAccept ==
    \/ \E s \in Sessions : Server_OnAccept(s)
    \/ Server_OnAccept_Error
    \/ \E s \in Sessions : Session_OnAccept(s)
    \/ \E s \in Sessions : OnRead_Error(s)
    \/ Stop_Begin
    \/ Stop_Lock
    \/ Stop_Close
    \/ Stop_Clear
    \/ Stop_Join

SpecAccept == InitSession /\ [][NextAccept]_vars

\* HandleCommand on its own, over the frames of at most MaxFields fields
Keys == {"command", "jobId", "note"}
Values == {"", "command", "get_status", "J1"}
Fields == [key : Keys, value : Values, str : BOOLEAN]
Payloads == UNION {[1..n -> Fields] : n \in 0..MaxFields}

InitParse ==
    /\ m_sessions = <<>>
    /\ m_open = [s \in Sessions |-> FALSE]
    /\ m_writeQueue = [s \in Sessions |-> <<>>]
    /\ inFlight = [s \in Sessions |-> FALSE]
    /\ wire = [s \in Sessions |-> <<>>]
    /\ enq = [s \in Sessions |-> <<>>]
    /\ conn = [s \in Sessions |-> "none"]
    /\ inbox = [s \in Sessions |-> <<>>]
    /\ net = Idle
    /\ hostQueue = <<>>
    /\ stack = <<>>
    /\ responded = {}
    /\ s_conversionInProgress = FALSE
    /\ s_currentJobId = ""
    /\ s_shouldCancel = FALSE
    /\ events = <<>>
    /\ reqs = <<>>
    /\ epoch = 0
    /\ m_reads = [s \in Sessions |-> 0]
    /\ m_sessionMutex = ""
    /\ bcast = NoBcast
    /\ stopper = NoStop
    /\ closeCalls = [s \in Sessions |-> 0]
    /\ writeErr = [s \in Sessions |-> FALSE]
    /\ m_running = TRUE
    /\ m_accepts = 1
    /\ acceptLog = <<>>
    /\ m_acceptor = "listening"
    /\ m_ioc = "ready"
    /\ callLog = <<>>
    /\ payload \in Payloads
    /\ parsed = NoParse
    /\ resolved = NoResolve
    /\ escaped = NoEscape

NextParse == HandleCommand

SpecParse == InitParse /\ [][NextParse]_vars

\* start_conversion's path resolution on its own, over the frames of at
\* most MaxPathFields path fields
PathKeys == {"plnPath", "pln_path", "ifcPath", "ifc_path", "outputPath",
             "output_path"}
PathValues == {"", "a", "b"}
PathFields == [key : PathKeys, value : PathValues, str : {TRUE}]
PathPayloads == UNION {[1..n -> PathFields] : n \in 0..MaxPathFields}

\* nothing is connected and nothing runs: only the pure functions act
InitQuiet ==
    /\ m_sessions = <<>>
    /\ m_open = [s \in Sessions |-> FALSE]
    /\ m_writeQueue = [s \in Sessions |-> <<>>]
    /\ inFlight = [s \in Sessions |-> FALSE]
    /\ wire = [s \in Sessions |-> <<>>]
    /\ enq = [s \in Sessions |-> <<>>]
    /\ conn = [s \in Sessions |-> "none"]
    /\ inbox = [s \in Sessions |-> <<>>]
    /\ net = Idle
    /\ hostQueue = <<>>
    /\ stack = <<>>
    /\ responded = {}
    /\ s_conversionInProgress = FALSE
    /\ s_currentJobId = ""
    /\ s_shouldCancel = FALSE
    /\ events = <<>>
    /\ reqs = <<>>
    /\ epoch = 0
    /\ m_reads = [s \in Sessions |-> 0]
    /\ m_sessionMutex = ""
    /\ bcast = NoBcast
    /\ stopper = NoStop
    /\ closeCalls = [s \in Sessions |-> 0]
    /\ writeErr = [s \in Sessions |-> FALSE]
    /\ m_running = TRUE
    /\ m_accepts = 1
    /\ acceptLog = <<>>
    /\ m_acceptor = "listening"
    /\ m_ioc = "ready"
    /\ callLog = <<>>

InitResolve ==
    /\ InitQuiet
    /\ payload \in PathPayloads
    /\ parsed = NoParse
    /\ resolved = NoResolve
    /\ escaped = NoEscape

NextResolve == ResolveFields

SpecResolve == InitResolve /\ [][NextResolve]_vars

\* A cancel_job against two jobs in a row.  Two start_conversion frames,
\* for J1 and for J2, have been delivered to the host and the round trip
\* of each has failed, so both commands wait for the main thread and the
\* network thread is free; the two dispatch-failure events are on their
\* way to the clients; a cancel_job for J1 waits to be read.
StaleStarts ==
    <<[cmd |-> "start_conversion", jobId |-> "J1"],
      [cmd |-> "start_conversion", jobId |-> "J2"]>>

StaleEvents ==
    <<ErrorMsg(1, "J1", DispatchFailed), ErrorMsg(2, "J2", DispatchFailed)>>

InitStale ==
    /\ m_sessions = <<"s1", "s2">>
    /\ m_open = [s \in Sessions |-> s \in {"s1", "s2"}]
    /\ m_writeQueue = [s \in Sessions |->
                         IF s \in {"s1", "s2"} THEN StaleEvents ELSE <<>>]
    /\ inFlight = [s \in Sessions |-> s \in {"s1", "s2"}]
    /\ wire = [s \in Sessions |->
                 IF s \in {"s1", "s2"} THEN <<StaleEvents[1]>> ELSE <<>>]
    /\ enq = [s \in Sessions |->
                IF s \in {"s1", "s2"} THEN StaleEvents ELSE <<>>]
    /\ conn = [s \in Sessions |-> IF s \in {"s1", "s2"} THEN "up" ELSE "none"]
    /\ inbox = [s \in Sessions |->
                  IF s = "s1"
                  THEN <<[req |-> 3, cmd |-> "cancel_job", jobId |-> "J1",
                          input |-> "none"]>>
                  ELSE <<>>]
    /\ net = Idle
    /\ hostQueue = [i \in 1..2 |->
                      [name |-> "ConvertPlnToIfc", req |-> i,
                       jobId |-> StaleStarts[i].jobId, inputPath |-> InPln,
                       outputPath |-> OutPath]]
    /\ stack = <<>>
    /\ responded = {}
    /\ s_conversionInProgress = FALSE
    /\ s_currentJobId = ""
    /\ s_shouldCancel = FALSE
    /\ events = StaleEvents
    /\ reqs = <<[NewReq(StaleStarts[1]) EXCEPT !.handledIn = 0],
                [NewReq(StaleStarts[2]) EXCEPT !.handledIn = 0],
                NewReq([cmd |-> "cancel_job", jobId |-> "J1"])>>
    /\ epoch = 0
    /\ m_reads = [s \in Sessions |-> IF conn[s] = "up" THEN 1 ELSE 0]
    /\ InitSide

NextStale ==
    \/ \E s \in Sessions : OnRead_CancelJob(s)
    \/ CancelConversion_ReadId
    \/ CancelWrite
    \/ HostRun
    \/ Convert_Entry
    \/ Convert_Close
    \/ Convert_Open
    \/ Convert_Save
    \/ Convert_CleanupClose
    \/ Convert_Finish

SpecStale == InitStale /\ [][NextStale]_vars

\* ------------------------------------------------ Start, Stop, Start
\* ArchicadWebSocketServer::Start on the host main thread.  port is what
\* bind and listen would meet: the port is free, or it is in use.
\* m_acceptor.open fails on an acceptor that is open; a failed bind or
\* listen returns false and leaves the acceptor open.
Start ==
    /\ stopper.pc = "idle"
    /\ Len(callLog) < MaxCalls
    /\ \E port \in {"free", "busy"} :
         LET ret == ~m_running /\ m_acceptor = "closed" /\ port = "free" IN
         /\ callLog' = Append(callLog, [op |-> "Start", port |-> port,
                                        ran |-> ~m_running, ret |-> ret])
         /\ IF m_running \/ m_acceptor # "closed"
            THEN UNCHANGED <<m_acceptor, m_running, m_accepts, net>>
            ELSE IF port = "busy"
            THEN /\ m_acceptor' = "open"
                 /\ UNCHANGED <<m_running, m_accepts, net>>
            ELSE /\ m_acceptor' = "listening"
                 /\ m_running' = TRUE
                 /\ m_accepts' = m_accepts + 1
                 /\ net' = [Idle EXCEPT !.pc = "starting"]
    /\ UNCHANGED <<sessVars, inbox, hostQueue, stack, responded, jobVars,
                   events, reqs, epoch, m_reads, m_sessionMutex, bcast,
                   stopper, closeCalls, writeErr, acceptLog, m_ioc, pureVars>>

\* RunServer on the new thread: m_ioc.run() serves the handlers, or, on
\* an io_context that stop() has stopped, returns at once, and RunServer
\* then clears m_running
RunServer_Run ==
    /\ net.pc = "starting"
    /\ IF m_ioc = "stopped"
       THEN /\ net' = [Idle EXCEPT !.pc = "stopped"]
            /\ m_running' = FALSE
       ELSE /\ net' = Idle
            /\ UNCHANGED m_running
    /\ UNCHANGED <<sessVars, inbox, hostQueue, stack, responded, jobVars,
                   events, reqs, epoch, m_reads, m_sessionMutex, bcast,
                   stopper, closeCalls, writeErr, m_accepts, acceptLog,
                   lifeVars, pureVars>>

\* Stop returns to its caller
Stop_Return ==
    /\ stopper.pc = "done"
    /\ stopper' = NoStop
    /\ callLog' = Append(callLog, [op |-> "Stop", port |-> "none",
                                   ran |-> TRUE, ret |-> TRUE])
    /\ UNCHANGED <<sessVars, inbox, net, hostQueue, stack, responded,
                   jobVars, events, reqs, epoch, m_reads, m_sessionMutex,
                   bcast, closeCalls, writeErr, m_running, m_accepts,
                   acceptLog, m_acceptor, m_ioc, pureVars>>

\* Stop on a server that is not running: if (!m_running) return
Stop_NotRunning ==
    /\ stopper.pc = "idle"
    /\ ~m_running
    /\ Len(callLog) < MaxCalls
    /\ callLog' = Append(callLog, [op |-> "Stop", port |-> "none",
                                   ran |-> FALSE, ret |-> FALSE])
    /\ UNCHANGED <<sessVars, inbox, net, hostQueue, stack, responded,
                   jobVars, events, reqs, epoch, m_reads, m_sessionMutex,
                   bcast, stopper, closeCalls, writeErr, m_running,
                   m_accepts, acceptLog, m_acceptor, m_ioc, pureVars>>

\* a BroadcastMessage on the main thread after a Stop has returned
Broadcast_AfterStop ==
    /\ stopper.pc = "idle"
    /\ callLog # <<>>
    /\ callLog[Len(callLog)].op = "Stop"
    /\ Broadcast

\* the server object has been constructed and not started
InitRestart ==
    /\ m_sessions = <<>>
    /\ m_open = [s \in Sessions |-> FALSE]
    /\ m_writeQueue = [s \in Sessions |-> <<>>]
    /\ inFlight = [s \in Sessions |-> FALSE]
    /\ wire = [s \in Sessions |-> <<>>]
    /\ enq = [s \in Sessions |-> <<>>]
    /\ conn = [s \in Sessions |-> "none"]
    /\ inbox = [s \in Sessions |-> <<>>]
    /\ net = [Idle EXCEPT !.pc = "stopped"]
    /\ hostQueue = <<>>
    /\ stack = <<>>
    /\ responded = {}
    /\ s_conversionInProgress = FALSE
    /\ s_currentJobId = ""
    /\ s_shouldCancel = FALSE
    /\ events = <<>>
    /\ reqs = <<>>
    /\ epoch = 0
    /\ m_reads = [s \in Sessions |-> 0]
    /\ m_sessionMutex = ""
    /\ bcast = NoBcast
    /\ stopper = NoStop
    /\ closeCalls = [s \in Sessions |-> 0]
    /\ writeErr = [s \in Sessions |-> FALSE]
    /\ m_running = FALSE
    /\ m_accepts = 0
    /\ acceptLog = <<>>
    /\ m_acceptor = "closed"
    /\ m_ioc = "ready"
    /\ callLog = <<>>
    /\ payload = <<>>
    /\ parsed = NoParse
    /\ resolved = NoResolve
    /\ escaped = NoEscape

NextRestart ==
    \/ Start
    \/ RunServer_Run
    \/ \E s \in Sessions : Server_OnAccept(s)
    \/ \E s \in Sessions : Session_OnAccept(s)
    \/ Broadcast_AfterStop
    \/ Stop_Begin
    \/ Stop_Lock
    \/ Stop_Close
    \/ Stop_Clear
    \/ Stop_Join
    \/ Stop_Return
    \/ Stop_NotRunning

SpecRestart == InitRestart /\ [][NextRestart]_vars

\* Stop on the host main thread against the dispatch round trip.  The
\* main thread is one thread: while it is inside Stop it runs no add-on
\* command, and the menu command that calls Stop runs when no add-on
\* command is executing.
StartOnly == {[cmd |-> "start_conversion", jobId |-> "J1", input |-> "pln"]}

ClientSend_Start(s) == ClientSendFrom(s, StartOnly)

\* StopWebSocketServer (the menu command): g_wsServer->Stop()
StopWebSocketServer ==
    /\ stack = <<>>
    /\ Stop_Begin

\* the host runs the next scheduled command when the main thread is not
\* inside Stop
HostRun_Main ==
    /\ stopper.pc = "idle"
    /\ HostRun

NextStop ==
    \/ \E s \in Sessions : ClientSend_Start(s)
    \/ \E s \in Sessions : OnRead_StartConversion(s)
    \/ RoundTripReturn
    \/ RoundTripFail
    \/ HostRun_Main
    \/ Convert_Entry
    \/ Convert_Close
    \/ Convert_Open
    \/ Convert_Save
    \/ Convert_CleanupClose
    \/ Convert_Finish
    \/ StopWebSocketServer
    \/ Stop_Lock
    \/ Stop_Close
    \/ Stop_Clear
    \/ Stop_Join

\* Both threads keep running and the host's project operations return:
\* every step of a handler, of a command and of Stop that can be taken
\* is taken.  Nothing makes a client send, the user stop the server or
\* the blocking read of the round trip fail.
FairStop ==
    /\ WF_vars(\E s \in Sessions : OnRead_StartConversion(s))
    /\ WF_vars(RoundTripReturn)
    /\ WF_vars(HostRun_Main)
    /\ WF_vars(Convert_Entry)
    /\ WF_vars(Convert_Close)
    /\ WF_vars(Convert_Open)
    /\ WF_vars(Convert_Save)
    /\ WF_vars(Convert_CleanupClose)
    /\ WF_vars(Convert_Finish)
    /\ WF_vars(Stop_Lock)
    /\ WF_vars(Stop_Close)
    /\ WF_vars(Stop_Clear)
    /\ WF_vars(Stop_Join)

SpecStop == Init /\ [][NextStop]_vars /\ FairStop

\* start_conversion from the payload to the refusal or the dispatch: the
\* handler resolves the path fields of the frame it was given and either
\* reports the missing paths or calls the add-on command over HTTP.
MissingPaths ==
    "Missing input path (pln_path or ifc_path) and output_path"

\* the part of the handler after the test of the paths
DispatchStart(s, f, r) ==
    \E o \in {"portError", "connectError", "delivered"} :
       IF o = "delivered"
       THEN /\ hostQueue' = Append(hostQueue,
                  [name |-> IF r.isPlnToIfc THEN "ConvertPlnToIfc"
                            ELSE "ConvertIfcToPln",
                   req |-> f.req, jobId |-> f.jobId,
                   inputPath |-> r.inputPath, outputPath |-> r.outputPath])
            /\ net' = [pc |-> "roundtrip", sess |-> s, req |-> f.req,
                       jobId |-> f.jobId, snap |-> 0]
            /\ m_reads' = ReadCompleted(m_reads, s)
            /\ UNCHANGED <<sessVars, events>>
       ELSE /\ Emit(<<ErrorMsg(f.req, f.jobId, DispatchFailed)>>)
            /\ m_reads' = DoRead(ReadCompleted(m_reads, s), s)
            /\ UNCHANGED <<net, hostQueue>>

\* start_conversion without the test of the paths
OnRead_StartPayload_NoTest(s) ==
    /\ CanRead(s)
    /\ ~resolved.done
    /\ LET f == Head(inbox[s])
           r == ResolvePaths(Text(payload))
       IN /\ f.cmd = "start_conversion"
          /\ inbox' = [inbox EXCEPT ![s] = Tail(@)]
          /\ reqs' = Handled(f.req)
          /\ resolved' = r
          /\ DispatchStart(s, f, r)
    /\ UNCHANGED <<stack, responded, jobVars, epoch, m_sessionMutex, bcast,
                   stopper, closeCalls, writeErr, srvVars, payload, parsed,
                   escaped>>

\* OnRead -> ... -> HandleWebSocketCommand, command "start_conversion",
\* from the payload
OnRead_StartPayload(s) ==
    /\ CanRead(s)
    /\ ~resolved.done
    /\ LET f == Head(inbox[s])
           r == ResolvePaths(Text(payload))
       IN /\ f.cmd = "start_conversion"
          /\ inbox' = [inbox EXCEPT ![s] = Tail(@)]
          /\ reqs' = Handled(f.req)
          /\ resolved' = r
          /\ IF r.inputPath = "" \/ r.outputPath = ""
             THEN /\ Emit(<<ErrorMsg(f.req, f.jobId, MissingPaths)>>)
                  /\ m_reads' = DoRead(ReadCompleted(m_reads, s), s)
                  /\ UNCHANGED <<net, hostQueue>>
             ELSE DispatchStart(s, f, r)
    /\ UNCHANGED <<stack, responded, jobVars, epoch, m_sessionMutex, bcast,
                   stopper, closeCalls, writeErr, srvVars, payload, parsed,
                   escaped>>

\* one client is connected and its start_conversion frame, with any of
\* the payloads, waits to be read; no job is Running
InitStart ==
    /\ m_sessions = <<"s1", "s2">>
    /\ m_open = [s \in Sessions |-> s \in {"s1", "s2"}]
    /\ m_writeQueue = [s \in Sessions |-> <<>>]
    /\ inFlight = [s \in Sessions |-> FALSE]
    /\ wire = [s \in Sessions |-> <<>>]
    /\ enq = [s \in Sessions |-> <<>>]
    /\ conn = [s \in Sessions |-> IF s \in {"s1", "s2"} THEN "up" ELSE "none"]
    /\ inbox = [s \in Sessions |->
                  IF s = "s1"
                  THEN <<[req |-> 1, cmd |-> "start_conversion",
                          jobId |-> "J1", input |-> "payload"]>>
                  ELSE <<>>]
    /\ net = Idle
    /\ hostQueue = <<>>
    /\ stack = <<>>
    /\ responded = {}
    /\ s_conversionInProgress = FALSE
    /\ s_currentJobId = ""
    /\ s_shouldCancel \in BOOLEAN
    /\ events = <<>>
    /\ reqs = <<NewReq([cmd |-> "start_conversion", jobId |-> "J1"])>>
    /\ epoch = 0
    /\ m_reads = [s \in Sessions |-> IF conn[s] = "up" THEN 1 ELSE 0]
    /\ m_sessionMutex = ""
    /\ bcast = NoBcast
    /\ stopper = NoStop
    /\ closeCalls = [s \in Sessions |-> 0]
    /\ writeErr = [s \in Sessions |-> FALSE]
    /\ m_running = TRUE
    /\ m_accepts = 1
    /\ acceptLog = <<>>
    /\ m_acceptor = "listening"
    /\ m_ioc = "ready"
    /\ callLog = <<>>
    /\ payload \in PathPayloads
    /\ parsed = NoParse
    /\ resolved = NoResolve
    /\ escaped = NoEscape

NextStart ==
    \/ \E s \in Sessions : OnRead_StartPayload(s)
    \/ RoundTripFail

SpecStart == InitStart /\ [][NextStart]_vars

\* EscapeJson on its own, over the strings of at most MaxStr bytes of an
\* alphabet that has the quote, the backslash, the five named control
\* characters, two other control characters, the space, two letters and
\* a byte of a UTF-8 sequence; char is signed or unsigned as the build
\* makes it
Bytes == {Quote, Backslash, 8, 12, 10, 13, 9, 1, 31, 32, 65, LetterU, 195}
Strings == UNION {[1..n -> Bytes] : n \in 0..MaxStr}

InitEscape ==
    /\ InitQuiet
    /\ payload = <<>>
    /\ parsed = NoParse
    /\ resolved = NoResolve
    /\ \E str \in Strings, signed \in BOOLEAN :
          escaped = [done |-> FALSE, str |-> str, signed |-> signed,
                     out |-> <<>>]

NextEscape == EscapeValue

SpecEscape == InitEscape /\ [][NextEscape]_vars

\* ================================================================ claims
Range(f) == {f[i] : i \in DOMAIN f}
Last(q) == q[Len(q)]

\* the events the add-on command of request r emitted, in broadcast
\* order (the dispatcher's own "HTTP request failed" is not one of them)
EventsOf(r) ==
    SelectSeq(events, LAMBDA m : m.req = r /\ m.text # DispatchFailed)

\* the conversions between their admission and their state reset
ActiveConversions ==
    {i \in DOMAIN stack : IsConversion(stack[i].name) /\ stack[i].pc # "entry"}

OnStack(r) == \E i \in DOMAIN stack : stack[i].req = r

\* C1: single flight. In every reachable state at most one conversion
\* (ConvertPlnToIfc or ConvertIfcToPln) is between its admission and its
\* state reset.
C1_SingleFlight == Cardinality(ActiveConversions) <= 1

\* a second start reached the admission test while a conversion was active
C1_Witness ==
    /\ Cardinality(ActiveConversions) = 1
    /\ \E r \in DOMAIN reqs : reqs[r].ret = "rejected"

\* C2: admission is atomic. A start request is admitted only when no job
\* is Running, and then it alone takes the flag and the job id; a start
\* request that reaches the test while a job is Running returns false and
\* leaves s_conversionInProgress, s_currentJobId and s_shouldCancel as
\* they were.
C2_AdmissionAtomic ==
    [][\A r \in DOMAIN reqs :
         /\ (reqs[r].ret = "none" /\ reqs'[r].ret = "admitted") =>
               /\ ~s_conversionInProgress
               /\ s_conversionInProgress'
               /\ s_currentJobId' = reqs[r].jobId
               /\ \A q \in DOMAIN reqs \ {r} : reqs'[q].ret = reqs[q].ret
         /\ (reqs[r].ret = "none" /\ reqs'[r].ret = "rejected") =>
               /\ s_conversionInProgress
               /\ UNCHANGED jobVars]_vars

\* one request was admitted, another was rejected while the first was
\* still Running under its own job id
C2_Witness ==
    \E r1, r2 \in DOMAIN reqs :
       /\ reqs[r1].ret = "admitted" /\ OnStack(r1)
       /\ reqs[r2].ret = "rejected"
       /\ s_conversionInProgress /\ s_currentJobId = reqs[r1].jobId

\* C3: a start_conversion rejected because another job is Running causes
\* exactly one event for its job id; that event has type "error" and
\* carries the "already in progress" text.
C3_OneErrorEvent ==
    \A r \in DOMAIN reqs :
       reqs[r].ret = "rejected" =>
          /\ Len(EventsOf(r)) = 1
          /\ EventsOf(r)[1].type = "error"
          /\ EventsOf(r)[1].jobId = reqs[r].jobId
          /\ EventsOf(r)[1].text = AlreadyInProgress

\* C4: a start_conversion frame that arrives while a job is Running is
\* never held back until that job has finished and then admitted.
C4_NeverAdmittedLater ==
    \A r \in DOMAIN reqs :
       (reqs[r].cmd = "start_conversion" /\ reqs[r].arr > 0) =>
          reqs[r].ret # "admitted"

\* C5: a get_status or cancel_job frame that arrives while a job is
\* Running is handled while that same job is still Running.
C5_AnsweredWhileRunning ==
    \A r \in DOMAIN reqs :
       (/\ reqs[r].cmd \in {"get_status", "cancel_job"}
        /\ reqs[r].arr > 0
        /\ reqs[r].handledIn # -1) =>
          reqs[r].handledIn = reqs[r].arr

\* C6: per-session outbound order. On an open session the frames handed
\* to the transport are the messages Send enqueued, in enqueue order, up
\* to the one being written, and the queue holds the rest: nothing is
\* skipped, duplicated or reordered.
C6_OutboundOrder ==
    \A s \in Sessions :
       m_open[s] =>
          LET n == Len(enq[s])
              k == Len(m_writeQueue[s])
              w == (n - k) + (IF inFlight[s] THEN 1 ELSE 0)
          IN /\ k <= n
             /\ wire[s] = SubSeq(enq[s], 1, w)
             /\ m_writeQueue[s] = SubSeq(enq[s], n - k + 1, n)
             /\ (k > 0 => inFlight[s])

\* three messages were enqueued on an open session and all three were
\* handed to the transport
C6_Witness ==
    \E s \in Sessions :
       m_open[s] /\ Len(enq[s]) = 3 /\ wire[s] = enq[s]

\* C7: BroadcastMessage over the tracked set enqueues the message once on
\* each tracked open session and on no other, and leaves exactly the open
\* sessions tracked, in their order.
C7_Broadcast ==
    [][events' # events =>
         LET m == Last(events') IN
         /\ m_sessions' = SelectSeq(m_sessions, LAMBDA s : m_open[s])
         /\ \A s \in Sessions :
               enq'[s] = IF s \in Range(m_sessions) /\ m_open[s]
                         THEN Append(enq[s], m) ELSE enq[s]]_vars

\* one broadcast over three tracked sessions of which one was closed:
\* two sessions got the message, the closed one is no longer tracked
C7_Witness ==
    /\ events = <<1>>
    /\ \A s \in Sessions : conn[s] # "none"
    /\ Len(m_sessions) = 2
    /\ \A s \in Range(m_sessions) : enq[s] = <<1>>
    /\ \A s \in Sessions \ Range(m_sessions) : enq[s] = <<>> /\ ~m_open[s]

\* the percents a successful conversion reports
Percents(name) ==
    IF name = "ConvertPlnToIfc" THEN <<20, 30, 50, 70, 100>>
    ELSE <<20, 40, 70, 100>>

C9_Cancel ==
    [][\A r \in DOMAIN reqs :
         /\ (net.pc # "cancelWrite" /\ net'.pc = "cancelWrite"
                /\ net'.req = r) =>
               /\ s_conversionInProgress /\ s_currentJobId = reqs[r].jobId
               /\ UNCHANGED jobVars
         /\ (reqs[r].ret # "true" /\ reqs'[r].ret = "true") =>
               /\ net.pc = "cancelWrite" /\ net.req = r
               /\ s_shouldCancel'
               /\ UNCHANGED <<s_conversionInProgress, s_currentJobId>>
         /\ (reqs[r].ret # "false" /\ reqs'[r].ret = "false") =>
               /\ ~(s_conversionInProgress
                      /\ s_currentJobId = reqs[r].jobId)
               /\ UNCHANGED jobVars]_vars

\* a cancel_job for the Running job returned true and the flag is set
C9_Witness ==
    \E r \in DOMAIN reqs :
       /\ reqs[r].cmd = "cancel_job" /\ reqs[r].ret = "true"
       /\ s_shouldCancel
       /\ s_conversionInProgress /\ s_currentJobId = reqs[r].jobId

\* C10: every admitted conversion that has returned ran both cleanup
\* steps (close project, open blank template), whatever its outcome, and
\* once no admitted conversion is executing the state is Idle with the
\* job id cleared.
C10_CleanupAlways ==
    /\ \A r \in DOMAIN reqs :
          (reqs[r].ret = "admitted" /\ ~OnStack(r)) =>
             reqs[r].done # "none" /\ reqs[r].cleanup = 2
    /\ ActiveConversions = {} =>
          ~s_conversionInProgress /\ s_currentJobId = ""

\* a conversion that failed has returned through the cleanup
C10_Witness ==
    \E r \in DOMAIN reqs :
       /\ reqs[r].done = "failed" /\ reqs[r].cleanup = 2
       /\ ~s_conversionInProgress

\* C11: an admitted job whose conversion fails has exactly one event
\* reporting the error (status "error") broadcast for it, and when that
\* event has been broadcast and the job has returned, the job state is
\* Idle and both cleanup steps have run.
C11_OneFailureEvent ==
    \A r \in DOMAIN reqs :
       (reqs[r].ret = "admitted" /\ reqs[r].done = "failed") =>
          /\ Len(SelectSeq(EventsOf(r), LAMBDA m : m.status = "error")) = 1
          /\ reqs[r].cleanup = 2

\* the start_conversion requests for which a dispatch failure was reported
DispatchErrors(r) ==
    SelectSeq(events, LAMBDA m : m.req = r /\ m.text = DispatchFailed)

\* C12: when the dispatch round trip of a start_conversion fails, one
\* error event tagged with its job id is broadcast, the command handler
\* has returned (the network thread is free to read again), and the job
\* is not Running: its add-on command is neither scheduled nor executing.
C12_DispatchFailure ==
    \A r \in DOMAIN reqs :
       (reqs[r].cmd = "start_conversion" /\ DispatchErrors(r) # <<>>) =>
          /\ Len(DispatchErrors(r)) = 1
          /\ DispatchErrors(r)[1].type = "error"
          /\ DispatchErrors(r)[1].jobId = reqs[r].jobId
          /\ net.req # r
          /\ ~OnStack(r)
          /\ \A i \in DOMAIN hostQueue : hostQueue[i].req # r

\* C13: m_sessionMutex is held only while the tracked set is copied or
\* changed: no thread is at a Session::Send or a Session::Close while it
\* holds m_sessionMutex.
C13_NoSendUnderLock ==
    /\ bcast.pc = "send" => m_sessionMutex # bcast.thread
    /\ stopper.pc = "close" => m_sessionMutex # "host"

\* C14: a session has at most one read outstanding, none while the
\* callback of one of its frames is running (the next read is issued when
\* the callback has returned), and the frames it has not read yet are
\* unhandled and wait in arrival order.
C14_OneRead ==
    \A s \in Sessions :
       /\ m_reads[s] <= 1
       /\ (net.pc # "idle" /\ net.sess = s) => m_reads[s] = 0
       /\ \A i \in DOMAIN inbox[s] :
             /\ reqs[inbox[s][i].req].handledIn = -1
             /\ i > 1 => inbox[s][i - 1].req < inbox[s][i].req

\* the callback of a frame is running (it is in the dispatch round trip)
\* while the next frame of the same session is waiting
C14_Witness ==
    /\ net.pc = "roundtrip"
    /\ inbox[net.sess] # <<>>
    /\ m_reads[net.sess] = 0

\* C15: a session whose handshake has completed and that has not been
\* closed is tracked by the server, so that every later BroadcastMessage
\* reaches it.
C15_OpenIsTracked ==
    \A s \in Sessions :
       (m_open[s] /\ conn[s] = "up") => s \in Range(m_sessions)

\* C16: after a call of Session::Close has returned the session is not
\* open and its transport has been closed, in whatever state the session
\* was when Close was called.
C16_CloseCloses ==
    \A s \in Sessions :
       closeCalls[s] > 0 =>
          ~m_open[s] /\ conn[s] \in {"closed", "down", "gone"}

\* C17: a Send on a session that is not open is dropped: nothing is
\* enqueued, no write is started, the write queue is unchanged; a Send on
\* an open session enqueues the message on that session only.
C17_SendDropped ==
    [][(bcast.pc = "send" /\ bcast' # bcast) =>
         LET s == Head(bcast.rest) IN
         IF m_open[s]
         THEN /\ enq' = [enq EXCEPT ![s] = Append(@, bcast.msg)]
              /\ m_writeQueue' = [m_writeQueue EXCEPT
                                    ![s] = Append(@, bcast.msg)]
         ELSE UNCHANGED <<m_writeQueue, inFlight, wire, enq>>]_vars

\* a broadcast called Send on a session that had stopped being open
\* after the IsOpen test of the loop
C17_Witness ==
    /\ bcast.dropped > 0
    /\ \E s \in Range(m_sessions) : ~m_open[s] /\ bcast.msg \notin Range(enq[s])

\* the frame has a field whose key is "command" and whose value is a
\* string that is not empty
HasCommand(fields) ==
    \E i \in DOMAIN fields :
       fields[i].key = "command" /\ fields[i].str /\ fields[i].value # ""

HasCommandField(fields) == \E i \in DOMAIN fields : fields[i].key = "command"

\* C18: a frame without a command field, or whose command is the empty
\* string, causes no command callback (hence no dispatch and no event).
C18_NoCommandNoCallback ==
    (/\ parsed.done
     /\ \/ ~HasCommandField(payload)
        \/ \E i \in DOMAIN payload :
              /\ payload[i].key = "command" /\ payload[i].str
              /\ payload[i].value = ""
              /\ \A j \in DOMAIN payload : payload[j].key = "command" => j = i)
    => ~parsed.called

\* every event broadcast on behalf of request r
AllEventsOf(r) == SelectSeq(events, LAMBDA m : m.req = r)

\* request r was never given to the host execution context
NotDispatched(r) ==
    /\ ~OnStack(r)
    /\ \A i \in DOMAIN hostQueue : hostQueue[i].req # r
    /\ r \notin responded

InHostOperation == {i \in DOMAIN stack : stack[i].pc \in HostSteps}

\* the request admitted as the e-th job
AdmittedAs(e) == {r \in DOMAIN reqs : reqs[r].adm = e}

\* C21: the job state is read by the network thread (cancel_job,
\* get_status) as if under one guard with the host's writes: the pair
\* (Running flag, job id) a read observes is the pair of one instant of
\* the read.  A read that found the flag set and then takes the job id
\* observes (TRUE, s_currentJobId), which existed only if a job with that
\* id was Running at some instant since the flag was read.
C21_ConsistentRead ==
    [][(net.pc \in {"statusId", "cancelId"} /\ net'.pc # net.pc) =>
          \E e \in net.snap..epoch :
             \E r \in AdmittedAs(e) : reqs[r].jobId = s_currentJobId]_vars

\* C20: host project operations are driven one at a time and only by a
\* command that has passed the single-flight admission gate: a command
\* that is inside a project operation is the admitted conversion (the
\* Running flag is set and the job id is its own), and no two commands
\* are inside a project operation together.
C20_GatedHostOps ==
    /\ \A i \in InHostOperation :
          /\ IsConversion(stack[i].name)
          /\ s_conversionInProgress
          /\ s_currentJobId = stack[i].jobId
    /\ Cardinality(InHostOperation) <= 1

\* the calls of the progress callback of request r's conversion, in order
ProgressOf(r) == SelectSeq(EventsOf(r), LAMBDA m : m.type = "progress")

\* C22: within one job the percents given to the progress callback never
\* decrease, on the failure paths as on the successful one.
C22_PercentNonDecreasing ==
    \A r \in DOMAIN reqs :
       reqs[r].cmd = "start_conversion" =>
          LET ps == ProgressOf(r) IN
          \A i \in 1..(Len(ps) - 1) : ps[i].progress <= ps[i + 1].progress

\* C23: a Running job always has a job id that is not empty: a
\* start_conversion frame whose jobId is absent or empty is never
\* admitted.
C23_RunningHasId ==
    /\ s_conversionInProgress => s_currentJobId # ""
    /\ \A r \in DOMAIN reqs : reqs[r].ret = "admitted" => reqs[r].jobId # ""

\* each key occurs in at most one field of the frame
DistinctKeys(fields) ==
    \A i, j \in DOMAIN fields : fields[i].key = fields[j].key => i = j

\* the values, not empty, the frame gives under one of the keys
NonEmptyValues(fields, keys) ==
    {fields[i].value : i \in {j \in DOMAIN fields :
                                 fields[j].key \in keys /\ fields[j].value # ""}}

\* the other spelling of a key
OtherSpelling(key) ==
    CASE key = "plnPath" -> "pln_path" [] key = "pln_path" -> "plnPath"
      [] key = "ifcPath" -> "ifc_path" [] key = "ifc_path" -> "ifcPath"
      [] key = "outputPath" -> "output_path"
      [] key = "output_path" -> "outputPath"

\* the frame with every key in its other spelling
Respelled(fields) ==
    [i \in DOMAIN fields |-> [fields[i] EXCEPT !.key = OtherSpelling(@)]]

HasKey(fields, key) == \E i \in DOMAIN fields : fields[i].key = key
ValueOf(fields, key) ==
    fields[CHOOSE i \in DOMAIN fields : fields[i].key = key].value

\* the value of a field that has two spellings: the canonical one when
\* the frame has it, else the alternate one, else nothing
Lookup(fields, canonical, alternate) ==
    IF HasKey(fields, canonical) THEN ValueOf(fields, canonical)
    ELSE IF HasKey(fields, alternate) THEN ValueOf(fields, alternate)
    ELSE ""

\* no field of the frame is given under both of its spellings
OneSpelling(fields) ==
    \A i, j \in DOMAIN fields : fields[i].key # OtherSpelling(fields[j].key)

HexValue(ch) ==
    IF ch >= 48 /\ ch <= 57 THEN ch - 48
    ELSE IF ch >= 97 /\ ch <= 102 THEN ch - 87
    ELSE IF ch >= 65 /\ ch <= 70 THEN ch - 55
    ELSE -1

\* what a JSON parser makes of one escape letter, -1 if it is none
Unescaped(ch) ==
    CASE ch = Quote -> Quote
      [] ch = Backslash -> Backslash
      [] ch = 47 -> 47
      [] ch = LetterB -> 8
      [] ch = LetterF -> 12
      [] ch = LetterN -> 10
      [] ch = LetterR -> 13
      [] ch = LetterT -> 9
      [] OTHER -> -1

\* The body of a JSON string literal decoded by a JSON parser, as the
\* sequence of the characters it stands for; <<-1>> when it is not the
\* body of a JSON string (a bare quote or control character, a bad
\* escape).  \uXXXX takes exactly four hexadecimal digits.
RECURSIVE JsonDecode(_)
JsonDecode(body) ==
    IF body = <<>> THEN <<>>
    ELSE LET c == Head(body) IN
         IF c = Backslash
         THEN IF Len(body) < 2 THEN <<-1>>
              ELSE IF body[2] = LetterU
              THEN IF Len(body) < 6
                      \/ \E i \in 3..6 : HexValue(body[i]) = -1
                   THEN <<-1>>
                   ELSE LET rest == JsonDecode(SubSeq(body, 7, Len(body)))
                            code == ((HexValue(body[3]) * 16
                                        + HexValue(body[4])) * 16
                                        + HexValue(body[5])) * 16
                                        + HexValue(body[6])
                        IN IF rest = <<-1>> THEN rest ELSE <<code>> \o rest
              ELSE LET rest == JsonDecode(SubSeq(body, 3, Len(body)))
                   IN IF Unescaped(body[2]) = -1 \/ rest = <<-1>>
                      THEN <<-1>>
                      ELSE <<Unescaped(body[2])>> \o rest
         ELSE LET rest == JsonDecode(Tail(body))
              IN IF c = Quote \/ c < 32 \/ rest = <<-1>> THEN <<-1>>
                 ELSE <<c>> \o rest

\* the escape the interface gives for one character
SpecifiedEscape(b) ==
    CASE b = Quote -> <<Backslash, Quote>>
      [] b = Backslash -> <<Backslash, Backslash>>
      [] b = 8 -> <<Backslash, LetterB>>
      [] b = 12 -> <<Backslash, LetterF>>
      [] b = 10 -> <<Backslash, LetterN>>
      [] b = 13 -> <<Backslash, LetterR>>
      [] b = 9 -> <<Backslash, LetterT>>
      [] OTHER -> IF b < 32
                  THEN <<Backslash, LetterU, 48, 48, HexChar(b \div 16),
                         HexChar(b % 16)>>
                  ELSE <<b>>

RECURSIVE SpecifiedEscapes(_)
SpecifiedEscapes(str) ==
    IF str = <<>> THEN <<>>
    ELSE SpecifiedEscape(Head(str)) \o SpecifiedEscapes(Tail(str))

\* C25: EscapeJson round-trips: decoding EscapeJson(s) as the body of a
\* JSON string literal yields s, for every string over the quote, the
\* backslash, the named and the other control characters and ordinary
\* characters; each listed character is turned into its specified escape
\* and every other character into itself.
C25_EscapeRoundTrip ==
    escaped.done =>
       /\ JsonDecode(escaped.out) = escaped.str
       /\ escaped.out = SpecifiedEscapes(escaped.str)

C27_FaultContained ==
    [][\A r \in DOMAIN reqs :
         (reqs[r].ret # "threw" /\ reqs'[r].ret = "threw") =>
            /\ \E s \in Sessions :
                  /\ inbox[s] # <<>> /\ Head(inbox[s]).req = r
                  /\ inbox' = [inbox EXCEPT ![s] = Tail(@)]
                  /\ m_reads'[s] = 1
                  /\ conn'[s] = "up"
            /\ net' = Idle
            /\ m_running'
            /\ UNCHANGED <<sessVars, jobVars, events, hostQueue, stack>>]_vars

\* the callback threw for a frame, and the next frame of the same client
\* was read and answered
C27_Witness ==
    \E r1, r2 \in DOMAIN reqs :
       /\ r1 < r2
       /\ reqs[r1].ret = "threw"
       /\ reqs[r2].cmd = "get_status" /\ AllEventsOf(r2) # <<>>
       /\ \E s \in Sessions : Len(wire[s]) > 0 /\ inbox[s] = <<>>
       /\ m_running /\ net = Idle

\* C28: ConversionHandler::Cleanup resets the job state completely from
\* any state: after it no job is Running, the job id is empty and the
\* cancel flag is clear, so that the next start request passes the
\* admission test; nothing else is touched.
C28_CleanupResets ==
    [][(jobVars' # jobVars /\ stack = <<>> /\ stack' = <<>>) =>
          /\ ~s_conversionInProgress'
          /\ s_currentJobId' = ""
          /\ ~s_shouldCancel'
          /\ ~Busy'
          /\ UNCHANGED <<sessVars, events, hostQueue, reqs, net>>]_vars

\* the job state said Running, with the cancel flag set, when the start
\* request arrived; Cleanup has run and the request has been admitted
C28_Witness ==
    /\ reqs[1].arr = 1 /\ reqs[1].ret = "admitted"
    /\ s_conversionInProgress /\ s_currentJobId = "J2" /\ ~s_shouldCancel

\* the writes of session s handed to the transport and not yet completed
Outstanding(s) ==
    Len(wire[s]) - (Len(enq[s]) - Len(m_writeQueue[s]))
                 - (IF writeErr[s] THEN 1 ELSE 0)

WriteQueueState ==
    \A s \in Sessions :
       /\ Outstanding(s) \in {0, 1}
       /\ inFlight[s] <=> Outstanding(s) = 1
       /\ ~writeErr[s] => (inFlight[s] <=> m_writeQueue[s] # <<>>)
       /\ inFlight[s] =>
             /\ m_writeQueue[s] # <<>>
             /\ wire[s][Len(wire[s])] = Head(m_writeQueue[s])

WriteQueueStep ==
    \A s \in Sessions :
       /\ Len(m_writeQueue'[s]) < Len(m_writeQueue[s]) =>
             /\ inFlight[s]
             /\ m_writeQueue'[s] = Tail(m_writeQueue[s])
       /\ Len(m_writeQueue'[s]) >= Len(m_writeQueue[s]) =>
             SubSeq(m_writeQueue'[s], 1, Len(m_writeQueue[s]))
                = m_writeQueue[s]

\* C29: write-queue invariant. Per session at most one asynchronous write
\* is outstanding; while the session has had no write error a write is in
\* flight exactly when the queue is non-empty; the message being written
\* is the head of the queue; and the head leaves the queue only in the
\* completion of its write, the rest of the queue keeping its order.
C29_WriteQueue ==
    WriteQueueState /\ [][WriteQueueState' /\ WriteQueueStep]_vars

\* two messages were enqueued on a session that has had no write error,
\* the first write has completed and the second is in flight
C29_Witness ==
    \E s \in Sessions :
       /\ ~writeErr[s] /\ inFlight[s]
       /\ Len(enq[s]) = 2 /\ Len(wire[s]) = 2 /\ Len(m_writeQueue[s]) = 1

\* C30: every cancel_job is answered. One whose jobId is not that of the
\* Running job, or that finds no job Running, yields an event for its
\* jobId that tells the client the cancel was not accepted; an accepted
\* one yields exactly one event, with status "cancelled", for its jobId.
C30_CancelReported ==
    \A r \in DOMAIN reqs :
       reqs[r].cmd = "cancel_job" =>
          LET evs == AllEventsOf(r) IN
          /\ reqs[r].ret = "false" =>
                \E i \in DOMAIN evs : /\ evs[i].jobId = reqs[r].jobId
                                      /\ evs[i].status # "cancelled"
          /\ reqs[r].ret = "true" =>
                /\ Len(evs) = 1
                /\ evs[1].jobId = reqs[r].jobId
                /\ evs[1].status = "cancelled"

\* C31: get_status(j) broadcasts exactly one progress event for j, with
\* progress 0, whose status is "processing" if and only if a job is
\* Running with id j when the event is sent, and "idle" otherwise; no
\* step of its handling changes the Running flag, the job id or the
\* cancel flag.
C31_GetStatus ==
    [][\A r \in DOMAIN reqs :
         reqs[r].cmd = "get_status" =>
            /\ reqs'[r] # reqs[r] => UNCHANGED jobVars
            /\ (events' # events /\ events'[Len(events')].req = r) =>
                  LET e == events'[Len(events')] IN
                  /\ events' = Append(events, e)
                  /\ AllEventsOf(r) = <<>>
                  /\ e.type = "progress" /\ e.progress = 0
                  /\ e.jobId = reqs[r].jobId
                  /\ e.status = (IF IsConversionInProgress(e.jobId)
                                 THEN "processing" ELSE "idle")
                  /\ UNCHANGED jobVars]_vars

\* C32: a start_conversion whose resolved source path or output path is
\* empty is refused before any dispatch: exactly one event, an error event
\* for its jobId, is broadcast for it, nothing is given to the host
\* execution context, the network thread does not wait, and the job state
\* is unchanged.
C32_MissingPathRefused ==
    [][(resolved'.done
          /\ (resolved'.inputPath = "" \/ resolved'.outputPath = "")) =>
         /\ hostQueue' = <<>> /\ NotDispatched(1)'
         /\ net' = Idle
         /\ Len(AllEventsOf(1)') = 1
         /\ AllEventsOf(1)'[1].type = "error"
         /\ AllEventsOf(1)'[1].jobId = "J1"
         /\ events' = AllEventsOf(1)'
         /\ UNCHANGED jobVars]_vars

\* a frame that names a source path and no output path was refused
C32_Witness ==
    /\ resolved.done
    /\ resolved.inputPath # "" /\ resolved.outputPath = ""
    /\ Len(events) = 1 /\ events[1].text = MissingPaths
    /\ hostQueue = <<>>

\* what a conversion reports, event by event: the percent of a progress
\* event, -1 for the final error event, -2 for the completion event
EventCode(e) ==
    IF e.type = "progress" THEN e.progress
    ELSE IF e.type = "error" THEN -1 ELSE -2

RunOf(r) == [i \in 1..Len(EventsOf(r)) |-> EventCode(EventsOf(r)[i])]

\* the event sequences of the conversions that nobody cancels
ConversionRuns(name) ==
    IF name = "ConvertPlnToIfc"
    THEN {<<0, -1>>, <<20, 30, 0, -1>>, <<20, 30, 50, 0, -1>>,
          <<20, 30, 50, 70, 0, -1>>, <<20, 30, 50, 70, 100, -2>>}
    ELSE {<<0, -1>>, <<20, 40, 0, -1>>, <<20, 40, 70, 0, -1>>,
          <<20, 40, 70, 100, -2>>}

IsPrefix(a, b) == Len(a) <= Len(b) /\ a = SubSeq(b, 1, Len(a))

\* the cancel_job frames that were accepted for job id j
AcceptedCancels(j) ==
    {c \in DOMAIN reqs : /\ reqs[c].cmd = "cancel_job"
                         /\ reqs[c].jobId = j /\ reqs[c].ret = "true"}

CancelledRunsAsUsual ==
    \A r \in DOMAIN reqs :
       (/\ reqs[r].cmd = "start_conversion" /\ reqs[r].ret = "admitted"
        /\ AcceptedCancels(reqs[r].jobId) # {}) =>
          /\ \E full \in ConversionRuns(reqs[r].name) :
                /\ IsPrefix(RunOf(r), full)
                /\ ~OnStack(r) =>
                      /\ RunOf(r) = full
                      /\ reqs[r].done = (IF full[Len(full)] = -2
                                         THEN "success" ELSE "failed")
          /\ ~OnStack(r) =>
                /\ reqs[r].cleanup = 2
                /\ ~s_conversionInProgress /\ s_currentJobId = ""

C34_StopTerminates ==
    (stopper.pc \notin {"idle", "done"}) ~> (stopper.pc = "done")

\* C35: the server can be restarted. A server that is running stays
\* running, with an accept armed and its thread alive, until Stop is
\* called; and every Start that is called on a server that is not running
\* while the port is free returns true, after a Stop as after a Start
\* that failed in bind or listen.
C35_Restartable ==
    [][/\ (m_running /\ ~m_running') =>
             (stopper.pc = "idle" /\ stopper'.pc = "lock")
       /\ (m_running' /\ stopper'.pc = "idle") =>
             (m_accepts' > 0 /\ net'.pc # "stopped")
       /\ \A i \in DOMAIN callLog' :
             (/\ callLog'[i].op = "Start" /\ callLog'[i].ran
              /\ callLog'[i].port = "free") => callLog'[i].ret]_vars

\* a Stop that ran has returned and Start has not been called since
Stopped ==
    /\ stopper.pc = "idle"
    /\ callLog # <<>>
    /\ callLog[Len(callLog)].op = "Stop"
    /\ \E i \in DOMAIN callLog : callLog[i].op = "Stop" /\ callLog[i].ran

\* C36: Stop closes every tracked session and empties the tracked set.
\* After Stop has returned no session is tracked (GetConnectionCount is 0),
\* no tracked session is open and IsRunning is false; a BroadcastMessage
\* after it enqueues nothing on any session; and a second Stop changes
\* nothing.
C36_StopClosesAll ==
    [][/\ Stopped' =>
             /\ m_sessions' = <<>>
             /\ \A i \in DOMAIN m_sessions' : ~m_open'[m_sessions'[i]]
             /\ ~m_running'
       /\ (Stopped /\ Stopped') =>
             UNCHANGED <<sessVars, m_running, m_accepts, m_acceptor,
                         m_ioc, stopper, net>>]_vars

\* C37: after the dispatch-failure error event of a start_conversion for
\* job j has been broadcast, no further event of that job is broadcast:
\* the job for which the round trip failed is not left running on the
\* host and reporting progress, completion or errors behind that event.
C37_SilentAfterDispatchFailure ==
    [][\A i \in DOMAIN events :
         events[i].text = DispatchFailed =>
            \A k \in (Len(events) + 1)..Len(events') :
               ~(/\ events'[k].req = events[i].req
                 /\ events'[k].jobId = events[i].jobId)]_vars

\* C38: a job never starts with a stale cancel request. The step that
\* admits a job leaves the cancel flag false, and while a job is Running
\* the cancel flag is set only by a cancel_job that was accepted for that
\* job: a cancel accepted for job j is not seen by a later job.
C38_NoStaleCancel ==
    [][/\ epoch' # epoch => ~s_shouldCancel'
       /\ (s_conversionInProgress' /\ s_shouldCancel') =>
             \E c \in DOMAIN reqs' :
                /\ reqs'[c].cmd = "cancel_job"
                /\ reqs'[c].ret = "true"
                /\ reqs'[c].jobId = s_currentJobId']_vars

\* C39: a write error ends a session's outbound traffic for good. Once
\* OnWrite has reported an error the session is not open and has no write
\* in flight, and from then on no write is started on it, no Send
\* enqueues anything on it and its open flag is never set again.
C39_WriteErrorIsFinal ==
    [][\A s \in Sessions :
         /\ writeErr'[s] => (~m_open'[s] /\ ~inFlight'[s])
         /\ writeErr[s] =>
               /\ wire'[s] = wire[s]
               /\ enq'[s] = enq[s]
               /\ m_writeQueue'[s] = m_writeQueue[s]]_vars

\* the only tracked session had a write error after the broadcast loop
\* had found it open, and the Send of that broadcast was dropped
C39_Witness ==
    \E s \in Sessions :
       /\ writeErr[s] /\ m_sessions = <<s>>
       /\ bcast.dropped > 0 /\ bcast.msg \notin Range(enq[s])
       /\ m_writeQueue[s] # <<>>

====
